---- MODULE Spec2Model ----
(***************************************************************************)
(* Duck Machine DM2022: the instruction codec (instr_format.py), the ALU   *)
(* and the CPU fetch/decode/execute step (cpu.py, register.py).            *)
(*                                                                         *)
(* The specifications of the module:                                       *)
(*   CodecSpec  an Instruction is built, encoded and decoded again;        *)
(*   WordSpec   decode is called on a word as found in memory;             *)
(*   FieldSpec  an Instruction with field values of any size is encoded;   *)
(*   AsmSpec    a source program goes through assembler phase 1 and phase  *)
(*              2, is loaded at address 0 and run;                         *)
(*   CompareSpec  a comparison of two constants is compiled by condjump,   *)
(*              and the code it asks for is run;                           *)
(*   AluSpec    ALU.exec is called on an opcode and two operands;          *)
(*   Spec       a CPU over a small memory executes step() and its          *)
(*              registers receive direct put() calls;                      *)
(*   RunSpec    the same CPU, on which run() is called as well;            *)
(*   WideSpec   a CPU executes ADD and MUL steps on register values of     *)
(*              any size;                                                  *)
(*   MachineSpec, MachineFairSpec                                          *)
(*              the Duck Machine runtime: a memory with an input and an    *)
(*              output port, a loaded program, and run(0).                 *)
(***************************************************************************)
EXTENDS Integers, Sequences, FiniteSets, TLC

VARIABLES
    c_instr,      \* codec: the Instruction object under encode()
    c_word,       \* codec: the result of c_instr.encode()
    c_decoded,    \* codec: the result of decode(c_word)
    codec_pc,     \* codec: "new" -> "encoded" -> "decoded", or
                  \*        "word" -> "word_decoded" / "word_invalid", or
                  \*        "unchecked" -> "unchecked_encoded"
    alu_call,     \* ALU: one call of ALU.exec, its arguments and its result
    registers,    \* CPU.registers: the _value of each of the 16 registers
    memory,       \* the cells of the Memory the CPU is connected to
    condition,    \* CPU.condition, the value of a CondFlag
    halted,       \* CPU.halted
    last,         \* what the most recent operation on the CPU did
    run_pc,       \* CPU.run: "idle" outside run(), "loop" inside its loop
    ports,        \* the addresses bound to an input / an output callback
    input,        \* the value the input callback returns when next called
    cap,          \* registers are followed while within -cap..cap
    wide,         \* WideSpec: CPU.registers, each value in two digits
    asm           \* the assembler: source lines, phase 1 and phase 2 output

codec_vars == <<c_instr, c_word, c_decoded, codec_pc>>
cpu_vars   == <<registers, memory, condition, halted, last, run_pc, ports,
                input, cap, wide, asm>>
vars       == <<c_instr, c_word, c_decoded, codec_pc, alu_call,
                registers, memory, condition, halted, last, run_pc, ports,
                input, cap, wide, asm>>

(***************************************************************************)
(* BitField (instruction_set/bitfield.py): a field is the pair <<low,high>>*)
(* of its bit positions.  Words are integers; the arithmetic below is the  *)
(* arbitrary-precision two's-complement shifting and masking of Python.    *)
(***************************************************************************)
RECURSIVE Pow2(_)
Pow2(n) == IF n = 0 THEN 1 ELSE 2 * Pow2(n - 1)

Width(f) == f[2] - f[1] + 1

\* (word >> low) & mask
extract(f, w) == (w \div Pow2(f[1])) % Pow2(Width(f))

\* as extract, the top bit of the field being a sign bit
extract_signed(f, w) ==
    LET v == extract(f, w)
    IN  IF v >= Pow2(Width(f) - 1) THEN v - Pow2(Width(f)) ELSE v

\* the field's bits of w replaced by value masked to the field's width
insert(f, value, w) ==
    w - extract(f, w) * Pow2(f[1]) + (value % Pow2(Width(f))) * Pow2(f[1])

(***************************************************************************)
(* instr_format.py: field positions, OpCode, CondFlag, Instruction         *)
(***************************************************************************)
reserved         == <<31, 31>>
instr_field      == <<26, 30>>
cond_field       == <<22, 25>>
reg_target_field == <<18, 21>>
reg_src1_field   == <<14, 17>>
reg_src2_field   == <<10, 13>>
offset_field     == <<0, 9>>

HALT  == 0
LOAD  == 1
STORE == 2
ADD   == 3
SUB   == 5
MUL   == 6
DIV   == 7
OpCode == {HALT, LOAD, STORE, ADD, SUB, MUL, DIV}

M == 1
Z == 2
P == 4
V == 8
NEVER  == 0
ALWAYS == 15

\* OpCode(value): the member with that value; ValueError when there is none
\* mutant: every value of 0..7 is an opcode
OpCodeValid_no_gap(v) == v \in 0..7

OpCodeValid(v) == v \in OpCode

\* CondFlag(value) of enum.Flag: a negative value names the complement of
\* ~value within the defined bits, i.e. value + 16; ValueError outside -16..15
CondFlagValid(v) == v \in -16..15
CondFlagOf(v) == IF v < 0 THEN v + 16 ELSE v

Instruction(op, cond, reg_target, reg_src1, reg_src2, offset) ==
    [op |-> op, cond |-> cond, reg_target |-> reg_target,
     reg_src1 |-> reg_src1, reg_src2 |-> reg_src2, offset |-> offset]

\* mutant: reg_src1 is inserted at the position of reg_target
encode_src1_misplaced(i) ==
    LET w1 == insert(instr_field, i.op, 0)
        w2 == insert(cond_field, i.cond, w1)
        w3 == insert(reg_target_field, i.reg_target, w2)
        w4 == insert(reg_target_field, i.reg_src1, w3)
        w5 == insert(reg_src2_field, i.reg_src2, w4)
    IN  insert(offset_field, i.offset, w5)

\* Instruction.encode
encode(i) ==
    LET w1 == insert(instr_field, i.op, 0)
        w2 == insert(cond_field, i.cond, w1)
        w3 == insert(reg_target_field, i.reg_target, w2)
        w4 == insert(reg_src1_field, i.reg_src1, w3)
        w5 == insert(reg_src2_field, i.reg_src2, w4)
    IN  insert(offset_field, i.offset, w5)

\* decode raises (ValueError) exactly when OpCode(...) or CondFlag(...) does
Decodable(w) ==
    /\ OpCodeValid(extract_signed(instr_field, w))
    /\ CondFlagValid(extract_signed(cond_field, w))

\* the register fields as decode extracts them
DecodeReg(f, w) == extract_signed(f, w)

decode(w) ==
    Instruction(extract_signed(instr_field, w),
                CondFlagOf(extract_signed(cond_field, w)),
                DecodeReg(reg_target_field, w),
                DecodeReg(reg_src1_field, w),
                DecodeReg(reg_src2_field, w),
                extract_signed(offset_field, w))

NoInstruction == Instruction(-1, -1, -1, -1, -1, -1)

(***************************************************************************)
(* The instructions the codec specification encodes: every field takes     *)
(* every value of its legal range, two fields at a time.                   *)
(***************************************************************************)
RegCorners    == {0, 1, 7, 8, 15}
OffsetCorners == {-512, -1, 0, 1, 511}
LegalInstructions ==
    {Instruction(op, c, t, 0, 15, -2) :
        op \in OpCode, c \in 0..15, t \in RegCorners}
    \cup {Instruction(SUB, M + Z, t, s1, s2, -12) :
        t \in 0..15, s1 \in RegCorners, s2 \in RegCorners}
    \cup {Instruction(LOAD, ALWAYS, t, s1, s2, 0) :
        t \in RegCorners, s1 \in 0..15, s2 \in 0..15}
    \cup {Instruction(op, ALWAYS, 1, 0, s2, off) :
        op \in {ADD, DIV}, s2 \in {0, 15}, off \in -512..511}
    \cup {Instruction(op, c, 2, 1, 3, off) :
        op \in OpCode, c \in 0..15, off \in OffsetCorners}


(***************************************************************************)
(* cpu.py: the ALU                                                         *)
(***************************************************************************)
\* mutant: the quotient is truncated toward zero
FloorDiv_truncated(x, y) ==
    LET ax == IF x < 0 THEN -x ELSE x
        ay == IF y < 0 THEN -y ELSE y
    IN  IF (x < 0) = (y < 0) THEN ax \div ay ELSE -(ax \div ay)

\* Python's x // y, the floor of the quotient, for y # 0
FloorDiv(x, y) == IF y > 0 THEN x \div y ELSE (-x) \div (-y)

\* ALU.ALU_OPS[op](x, y) raises (ZeroDivisionError) exactly here
ALURaises(op, x, y) == op = DIV /\ y = 0

\* mutant: HALT runs the adder like LOAD and STORE
ALU_OPS_halt_adds(op, x, y) ==
    CASE op = ADD   -> x + y
      [] op = SUB   -> x - y
      [] op = MUL   -> x * y
      [] op = DIV   -> FloorDiv(x, y)
      [] op = LOAD  -> x + y
      [] op = STORE -> x + y
      [] op = HALT  -> x + y

ALU_OPS(op, x, y) ==
    CASE op = ADD   -> x + y
      [] op = SUB   -> x - y
      [] op = MUL   -> x * y
      [] op = DIV   -> FloorDiv(x, y)
      [] op = LOAD  -> x + y
      [] op = STORE -> x + y
      [] op = HALT  -> 0

\* mutant: a fault is flagged V together with the Z of its result 0
exec_fault_flag(op, in1, in2) ==
    IF ALURaises(op, in1, in2)
    THEN <<0, V + Z>>
    ELSE LET op_result == ALU_OPS(op, in1, in2)
         IN  IF op_result = 0 THEN <<op_result, Z>>
             ELSE IF op_result < 0 THEN <<op_result, M>>
             ELSE <<op_result, P>>

\* ALU.exec: <<result, flag>>
exec(op, in1, in2) ==
    IF ALURaises(op, in1, in2)
    THEN <<0, V>>
    ELSE LET op_result == ALU_OPS(op, in1, in2)
         IN  IF op_result = 0 THEN <<op_result, Z>>
             ELSE IF op_result < 0 THEN <<op_result, M>>
             ELSE <<op_result, P>>

(***************************************************************************)
(* CondFlag.__and__: bitwise and of two flag values 0..15                  *)
(***************************************************************************)
RECURSIVE BitAnd(_, _)
BitAnd(a, b) ==
    IF a = 0 \/ b = 0 THEN 0
    ELSE (a % 2) * (b % 2) + 2 * BitAnd(a \div 2, b \div 2)

\* mutant: the flags are joined, not intersected
InstrPredicate_or(c, p) == c + p - BitAnd(c, p)

\* cpu.py line 116: self.condition & instr.cond
InstrPredicate(c, p) == BitAnd(c, p)

(***************************************************************************)
(* register.py and the register list of the CPU                            *)
(***************************************************************************)
\* mutant: a negative index is taken by its magnitude
RegIndex_magnitude(n) == IF n < 0 THEN -n ELSE n

\* self.registers[n]: a Python list of 16, negative n counting from the end
RegIndex(n) == IF n < 0 THEN n + 16 ELSE n

\* self.registers[n].get()
RegGet(regs, n) == regs[RegIndex(n)]

\* mutant: register 0 is an ordinary Register
RegisterPut_plain(regs, k, value) == [regs EXCEPT ![k] = value]

\* Register.put stores the value; ZeroRegister.put (register 0) does nothing
RegisterPut(regs, k, value) ==
    IF k = 0 THEN regs ELSE [regs EXCEPT ![k] = value]

\* self.registers[n].put(value)
RegPut(regs, n, value) == RegisterPut(regs, RegIndex(n), value)

(***************************************************************************)
(* Memory (cpu/memory.py): a fixed array of words, addresses 0..size-1;    *)
(* an access outside it is a fatal error.  MemoryMappedIO: an address      *)
(* bound to an input callback is read from the callback, an address bound  *)
(* to an output callback is written to the callback; neither touches the   *)
(* backing cells.                                                          *)
(***************************************************************************)
MemSize == 2
MaxVal  == 3

InRange(addr) == addr \in DOMAIN memory
MemGet(mem, addr) == mem[addr]
MemPut(mem, addr, value) == [mem EXCEPT ![addr] = value]

NoPorts == [in |-> {}, out |-> {}]

\* the values the input callback returns
MaxInput == 2
InputValues == 0..MaxInput

\* MemoryMappedIO.get: the input callback's value at an input port; an
\* output port reads as 0
IOGet(addr) ==
    IF addr \in ports.in THEN input
    ELSE IF addr \in ports.out THEN 0
    ELSE MemGet(memory, addr)

\* MemoryMappedIO.put: the cells after put(addr, value); a write to a port
\* leaves them alone
IOPut(addr, value) ==
    IF addr \in ports.in \cup ports.out THEN memory
    ELSE MemPut(memory, addr, value)

\* the calls of the output callback that put(addr, value) makes
IOOut(addr, value) ==
    IF addr \in ports.out THEN <<<<addr, value>>>> ELSE <<>>

\* the model follows an operation only while every register value stays
\* within -cap..cap
Bounded(regs) == \A k \in 0..15 : regs[k] \in (-cap)..cap

(***************************************************************************)
(* What an operation did, for observation: the kind of operation, the      *)
(* contents of the CPUStep event (pc_addr, instr_word), the value of       *)
(* instr_predicate, the number of ALU.exec calls, the memory accesses      *)
(* after the instruction fetch, the register a direct put() addressed, the *)
(* argument of run(), the CPUStep events sent to the observers and the     *)
(* calls of the output callback.                                           *)
(***************************************************************************)
Obs(kind, pc_addr, instr_word, pred, alu, gets, puts) ==
    [kind |-> kind, pc_addr |-> pc_addr, instr_word |-> instr_word,
     instr_predicate |-> pred, alu |-> alu, gets |-> gets, puts |-> puts,
     reg |-> -1, from_addr |-> -1, events |-> <<>>, outs |-> <<>>]

\* CPUStep(subject, pc_addr, instr_word, instr); the subject is the CPU, of
\* which an observer sees the state it has when the event is sent
CPUStep(subject, pc_addr, word, i) ==
    [subject |-> subject, pc_addr |-> pc_addr, instr_word |-> word,
     instr |-> i]

Subject(regs, mem, cond, h) ==
    [registers |-> regs, memory |-> mem, condition |-> cond, halted |-> h]

NoObs(kind) == Obs(kind, -1, 0, 0, 0, <<>>, <<>>)

(***************************************************************************)
(* CPU.step.  The names below are the locals of step(), as functions of    *)
(* the state the step starts in.                                           *)
(***************************************************************************)
instr_addr == RegGet(registers, 15)
instr_word == IOGet(instr_addr)
instr      == decode(instr_word)
instr_predicate == InstrPredicate(condition, instr.cond)
left_op    == RegGet(registers, instr.reg_src1)
\* mutant: the offset is left out of the right operand
right_op_no_offset == RegGet(registers, instr.reg_src2)
right_op   == RegGet(registers, instr.reg_src2) + instr.offset
result     == exec(instr.op, left_op, right_op)

\* self.pc.put(self.pc.get() + 1)
PCAdvanced(regs) == RegPut(regs, 15, RegGet(regs, 15) + 1)

\* fetch and decode succeed and the CPUStep event is sent
Decoded == InRange(instr_addr) /\ Decodable(instr_word)

\* notify_all(CPUStep(self, instr_addr, instr_word, instr)) is the first
\* thing step() does after the decode
StepObs(kind, alu, gets, puts) ==
    [Obs(kind, instr_addr, instr_word, instr_predicate, alu, gets, puts)
        EXCEPT !.events =
            <<CPUStep(Subject(registers, memory, condition, halted),
                      instr_addr, instr_word, instr)>>]

\* the values memory.get(addr) can return to a LOAD: the cell, or what the
\* input callback returns (on its second call if the instruction itself
\* was fetched from the input port)
LoadValues(addr) ==
    IF addr \in ports.in /\ instr_addr \in ports.in THEN InputValues
    ELSE {IOGet(addr)}

\* memory.get(instr_addr) raises: nothing has changed
StepFetchFault ==
    /\ ~InRange(instr_addr)
    /\ last' = NoObs("fatal")
    /\ UNCHANGED <<registers, memory, condition, halted>>

\* mutant: a HALT that is executed does not set the halted flag
StepHalt_keeps_running ==
    /\ Decoded
    /\ instr_predicate # 0
    /\ instr.op = HALT
    /\ registers' = PCAdvanced(registers)
    /\ last' = StepObs("step", 1, <<>>, <<>>)
    /\ UNCHANGED <<memory, condition, halted>>

\* mutant: the PC is advanced before the word is decoded
StepDecodeFault_pc_advanced ==
    /\ InRange(instr_addr)
    /\ ~Decodable(instr_word)
    /\ registers' = PCAdvanced(registers)
    /\ last' = NoObs("fatal")
    /\ UNCHANGED <<memory, condition, halted>>

\* decode(instr_word) raises: nothing has changed, no event was sent
StepDecodeFault ==
    /\ InRange(instr_addr)
    /\ ~Decodable(instr_word)
    /\ last' = NoObs("fatal")
    /\ UNCHANGED <<registers, memory, condition, halted>>

\* mutant: the observers are notified inside the if instr_predicate branch
StepNotSatisfied_silent ==
    /\ Decoded
    /\ instr_predicate = 0
    /\ registers' = PCAdvanced(registers)
    /\ last' = [StepObs("step", 0, <<>>, <<>>) EXCEPT !.events = <<>>]
    /\ UNCHANGED <<memory, condition, halted>>

\* mutant: HALT is acted on before the predicate is looked at
StepNotSatisfied_halts ==
    /\ Decoded
    /\ instr_predicate = 0
    /\ registers' = PCAdvanced(registers)
    /\ halted' = (halted \/ instr.op = HALT)
    /\ last' = StepObs("step", 0, <<>>, <<>>)
    /\ UNCHANGED <<memory, condition>>

\* mutant: a halted CPU does not move on
StepNotSatisfied_stays_when_halted ==
    /\ Decoded
    /\ instr_predicate = 0
    /\ registers' = IF halted THEN registers ELSE PCAdvanced(registers)
    /\ last' = StepObs("step", 0, <<>>, <<>>)
    /\ UNCHANGED <<memory, condition, halted>>

\* the else branch of "if instr_predicate"
StepNotSatisfied ==
    /\ Decoded
    /\ instr_predicate = 0
    /\ registers' = PCAdvanced(registers)
    /\ last' = StepObs("step", 0, <<>>, <<>>)
    /\ UNCHANGED <<memory, condition, halted>>

\* mutant: the address is computed without the offset
StepStore_address_without_offset ==
    /\ Decoded
    /\ instr_predicate # 0
    /\ instr.op = STORE
    /\ LET addr  == exec(instr.op, left_op, RegGet(registers, instr.reg_src2))[1]
           value == RegGet(PCAdvanced(registers), instr.reg_target)
       IN  /\ InRange(addr)
           /\ registers' = PCAdvanced(registers)
           /\ memory' = IOPut(addr, value)
           /\ last' = [StepObs("step", 1, <<>>, <<<<addr, value>>>>)
                          EXCEPT !.outs = IOOut(addr, value)]
    /\ UNCHANGED <<condition, halted>>

\* mutant: the value to store is read before the PC is advanced
StepStore_value_before_advance ==
    /\ Decoded
    /\ instr_predicate # 0
    /\ instr.op = STORE
    /\ LET addr  == result[1]
           value == RegGet(registers, instr.reg_target)
       IN  /\ InRange(addr)
           /\ registers' = PCAdvanced(registers)
           /\ memory' = IOPut(addr, value)
           /\ last' = [StepObs("step", 1, <<>>, <<<<addr, value>>>>)
                          EXCEPT !.outs = IOOut(addr, value)]
    /\ UNCHANGED <<condition, halted>>

StepStore ==
    /\ Decoded
    /\ instr_predicate # 0
    /\ instr.op = STORE
    /\ LET addr  == result[1]
           value == RegGet(PCAdvanced(registers), instr.reg_target)
       IN  /\ InRange(addr)
           /\ registers' = PCAdvanced(registers)
           /\ memory' = IOPut(addr, value)
           /\ last' = [StepObs("step", 1, <<>>, <<<<addr, value>>>>)
                          EXCEPT !.outs = IOOut(addr, value)]
    /\ UNCHANGED <<condition, halted>>

\* memory.put raises after the PC was advanced
StepStoreFault ==
    /\ Decoded
    /\ instr_predicate # 0
    /\ instr.op = STORE
    /\ ~InRange(result[1])
    /\ registers' = PCAdvanced(registers)
    /\ last' = StepObs("fatal", 1, <<>>, <<>>)
    /\ UNCHANGED <<memory, condition, halted>>

\* mutant: LOAD stores the ALU's flag in the condition register
StepLoad_sets_condition ==
    /\ Decoded
    /\ instr_predicate # 0
    /\ instr.op = LOAD
    /\ LET addr == result[1]
       IN  /\ InRange(addr)
           /\ \E value \in LoadValues(addr) :
                 registers' = RegPut(PCAdvanced(registers), instr.reg_target,
                                     value)
           /\ Bounded(registers')
           /\ last' = StepObs("step", 1, <<addr>>, <<>>)
    /\ condition' = result[2]
    /\ UNCHANGED <<memory, halted>>

\* mutant: LOAD puts the address in the target register
StepLoad_loads_address ==
    /\ Decoded
    /\ instr_predicate # 0
    /\ instr.op = LOAD
    /\ LET addr == result[1]
       IN  /\ InRange(addr)
           /\ registers' = RegPut(PCAdvanced(registers), instr.reg_target,
                                  addr)
           /\ Bounded(registers')
           /\ last' = StepObs("step", 1, <<addr>>, <<>>)
    /\ UNCHANGED <<memory, condition, halted>>

StepLoad ==
    /\ Decoded
    /\ instr_predicate # 0
    /\ instr.op = LOAD
    /\ LET addr == result[1]
       IN  /\ InRange(addr)
           /\ \E value \in LoadValues(addr) :
                 registers' = RegPut(PCAdvanced(registers), instr.reg_target,
                                     value)
           /\ Bounded(registers')
           /\ last' = StepObs("step", 1, <<addr>>, <<>>)
    /\ UNCHANGED <<memory, condition, halted>>

\* memory.get raises after the PC was advanced
StepLoadFault ==
    /\ Decoded
    /\ instr_predicate # 0
    /\ instr.op = LOAD
    /\ ~InRange(result[1])
    /\ registers' = PCAdvanced(registers)
    /\ last' = StepObs("fatal", 1, <<>>, <<>>)
    /\ UNCHANGED <<memory, condition, halted>>

\* mutant: HALT commits the ALU's result to the target register
StepHalt_commits_result ==
    /\ Decoded
    /\ instr_predicate # 0
    /\ instr.op = HALT
    /\ halted' = TRUE
    /\ registers' = RegPut(PCAdvanced(registers), instr.reg_target, result[1])
    /\ last' = StepObs("step", 1, <<>>, <<>>)
    /\ UNCHANGED <<memory, condition>>

StepHalt ==
    /\ Decoded
    /\ instr_predicate # 0
    /\ instr.op = HALT
    /\ halted' = TRUE
    /\ registers' = PCAdvanced(registers)
    /\ last' = StepObs("step", 1, <<>>, <<>>)
    /\ UNCHANGED <<memory, condition>>

\* mutant: the PC is incremented after the result is committed
StepArith_advance_after ==
    /\ Decoded
    /\ instr_predicate # 0
    /\ instr.op \notin {STORE, LOAD, HALT}
    /\ registers' = PCAdvanced(RegPut(registers, instr.reg_target, result[1]))
    /\ Bounded(registers')
    /\ condition' = result[2]
    /\ last' = StepObs("step", 1, <<>>, <<>>)
    /\ UNCHANGED <<memory, halted>>

\* mutant: the ALU's fault is not caught and ends the step
StepArith_fault_fatal ==
    /\ Decoded
    /\ instr_predicate # 0
    /\ instr.op \notin {STORE, LOAD, HALT}
    /\ IF ALURaises(instr.op, left_op, right_op)
       THEN /\ last' = StepObs("fatal", 1, <<>>, <<>>)
            /\ UNCHANGED <<registers, condition>>
       ELSE /\ registers' = RegPut(PCAdvanced(registers), instr.reg_target,
                                   result[1])
            /\ Bounded(registers')
            /\ condition' = result[2]
            /\ last' = StepObs("step", 1, <<>>, <<>>)
    /\ UNCHANGED <<memory, halted>>

\* ADD, SUB, MUL, DIV
StepArith ==
    /\ Decoded
    /\ instr_predicate # 0
    /\ instr.op \notin {STORE, LOAD, HALT}
    /\ registers' = RegPut(PCAdvanced(registers), instr.reg_target, result[1])
    /\ Bounded(registers')
    /\ condition' = result[2]
    /\ last' = StepObs("step", 1, <<>>, <<>>)
    /\ UNCHANGED <<memory, halted>>

step ==
    \/ StepFetchFault
    \/ StepDecodeFault
    \/ StepNotSatisfied
    \/ StepStore
    \/ StepStoreFault
    \/ StepLoad
    \/ StepLoadFault
    \/ StepHalt
    \/ StepArith

(***************************************************************************)
(* A direct put() on one of the CPU's registers                            *)
(***************************************************************************)
PutRegs   == {0, 1}
PutValues == {-2, 3}

Put ==
    \E k \in PutRegs, value \in PutValues :
        /\ registers' = RegisterPut(registers, k, value)
        /\ last' = [NoObs("put") EXCEPT !.reg = k]
        /\ UNCHANGED <<memory, condition, halted>>

(***************************************************************************)
(* CPU.run(from_addr): halted is reset, the PC is set, and step() is       *)
(* called while halted is false.  run() is left when the loop condition    *)
(* fails or when step() raises.                                            *)
(***************************************************************************)
RunAddrs == {0, 1}

\* mutant: run() resets the condition register as well
RunFrom_resets_condition(from_addr) ==
    /\ run_pc = "idle"
    /\ halted' = FALSE
    /\ condition' = ALWAYS
    /\ registers' = RegisterPut(registers, 15, from_addr)
    /\ run_pc' = "loop"
    /\ last' = [NoObs("run") EXCEPT !.from_addr = from_addr]
    /\ UNCHANGED <<memory, ports, input, cap>>

\* mutant: run() leaves the halted flag as it finds it
RunFrom_keeps_halted(from_addr) ==
    /\ run_pc = "idle"
    /\ registers' = RegisterPut(registers, 15, from_addr)
    /\ run_pc' = "loop"
    /\ last' = [NoObs("run") EXCEPT !.from_addr = from_addr]
    /\ UNCHANGED <<memory, condition, halted, ports, input, cap>>

RunFrom(from_addr) ==
    /\ run_pc = "idle"
    /\ halted' = FALSE
    /\ registers' = RegisterPut(registers, 15, from_addr)
    /\ run_pc' = "loop"
    /\ last' = [NoObs("run") EXCEPT !.from_addr = from_addr]
    /\ UNCHANGED <<memory, condition, ports, input, cap>>

Run == \E from_addr \in RunAddrs : RunFrom(from_addr)

\* while not self.halted: the loop is left
RunReturn ==
    /\ run_pc = "loop"
    /\ halted
    /\ run_pc' = "idle"
    /\ last' = NoObs("returned")
    /\ UNCHANGED <<registers, memory, condition, halted, ports, input, cap>>

\* who calls step(): the loop of run() while halted is false, or the owner
\* of the CPU outside run(); an exception of step() leaves run().  A
\* step that called the input callback has used up its value.
StepCalled ==
    /\ run_pc = "loop" => ~halted
    /\ run_pc' = IF last'.kind = "fatal" THEN "idle" ELSE run_pc
    /\ input' \in IF \/ instr_addr \in ports.in
                     \/ \E i \in 1..Len(last'.gets) : last'.gets[i] \in ports.in
                  THEN InputValues ELSE {input}
    /\ UNCHANGED <<ports, cap>>

\* a direct put() is made outside run()
PutCalled ==
    /\ run_pc = "idle"
    /\ UNCHANGED <<run_pc, ports, input, cap>>

(***************************************************************************)
(* The programs: every memory image over a pool of words                   *)
(***************************************************************************)
Pool ==
    { 0,                                                   \* DATA 0
      insert(instr_field, 4, 0),                           \* the reserved opcode
      encode(Instruction(HALT,  ALWAYS, 0, 0, 0, 0)),
      encode(Instruction(HALT,  Z,      1, 1, 1, 3)),
      encode(Instruction(LOAD,  ALWAYS, 1, 0, 15, 1)),
      encode(Instruction(LOAD,  ALWAYS, 0, 0, 1, 0)),
      encode(Instruction(STORE, ALWAYS, 1, 0, 15, 1)),
      encode(Instruction(STORE, ALWAYS, 15, 0, 0, 1)),
      encode(Instruction(ADD,   ALWAYS, 1, 1, 0, 1)),
      encode(Instruction(ADD,   P,      15, 0, 15, -1)),
      encode(Instruction(SUB,   ALWAYS, 0, 1, 0, 1)),
      encode(Instruction(MUL,   M + P,  9, 1, 1, 0)),
      encode(Instruction(DIV,   ALWAYS, 1, 9, 1, 0)),
      encode(Instruction(DIV,   ALWAYS, 1, 1, 0, 0)),
      encode(Instruction(DIV,   M + P,  15, 1, 0, 0)),
      encode(Instruction(DIV,   V + Z,  9, 1, 0, -2)) }

(***************************************************************************)
(* CPU.__init__ over a loaded memory                                       *)
(***************************************************************************)
\* a CPU that nothing has been done with, and the model's configuration
Fresh(io, c) ==
    /\ registers = [k \in 0..15 |-> 0]
    /\ condition = ALWAYS
    /\ halted = FALSE
    /\ last = NoObs("init")
    /\ run_pc = "idle"
    /\ ports = io
    /\ cap = c
    /\ wide = [k \in 0..15 |-> <<0, 0>>]

BlankMemory == [a \in 0..(MemSize - 1) |-> 0]

CPUInit ==
    /\ memory \in [0..(MemSize - 1) -> Pool]
    /\ Fresh(NoPorts, MaxVal)
    /\ input = 0

CodecIdle ==
    /\ c_instr = NoInstruction
    /\ c_word = 0
    /\ c_decoded = NoInstruction
    /\ codec_pc = "idle"

AluCall(op, in1, in2, res, pc) ==
    [op |-> op, in1 |-> in1, in2 |-> in2, result |-> res, pc |-> pc]

AluIdle == alu_call = AluCall(HALT, 0, 0, <<0, 0>>, "idle")

\* the assembler has been given nothing
AsmIdle ==
    asm = [pc |-> "idle", src |-> <<>>, out |-> <<>>, words |-> <<>>,
           errors |-> 0, listed |-> {}]

off_cpu_vars == <<codec_vars, alu_call, wide, asm>>

Init == CPUInit /\ CodecIdle /\ AluIdle /\ AsmIdle

Next ==
    \/ StepFetchFault /\ StepCalled /\ UNCHANGED off_cpu_vars
    \/ StepDecodeFault /\ StepCalled /\ UNCHANGED off_cpu_vars
    \/ StepNotSatisfied /\ StepCalled /\ UNCHANGED off_cpu_vars
    \/ StepStore /\ StepCalled /\ UNCHANGED off_cpu_vars
    \/ StepStoreFault /\ StepCalled /\ UNCHANGED off_cpu_vars
    \/ StepLoad /\ StepCalled /\ UNCHANGED off_cpu_vars
    \/ StepLoadFault /\ StepCalled /\ UNCHANGED off_cpu_vars
    \/ StepHalt /\ StepCalled /\ UNCHANGED off_cpu_vars
    \/ StepArith /\ StepCalled /\ UNCHANGED off_cpu_vars
    \/ Put /\ PutCalled /\ UNCHANGED off_cpu_vars

Spec == Init /\ [][Next]_vars

(***************************************************************************)
(* The run specification: the CPU of Spec, on which run() is called too    *)
(***************************************************************************)
RunNext ==
    \/ Next
    \/ Run /\ UNCHANGED off_cpu_vars
    \/ RunReturn /\ UNCHANGED off_cpu_vars

RunSpec == Init /\ [][RunNext]_vars

(***************************************************************************)
(* The wide specification.  A register holds a Python int, which has no    *)
(* width.  To follow values beyond the 32-bit integers of TLC, the         *)
(* value v of a register is written here in two digits <<hi, lo>> of radix *)
(* WBase, v = hi * WBase + lo with lo in 0..WBase-1; the value is within   *)
(* -2^31 .. 2^31 - 1 exactly when hi is within -2^16 .. 2^16 - 1.          *)
(***************************************************************************)
WBase == Pow2(15)

WideOf(n) == <<n \div WBase, n % WBase>>

\* x + y
WideAdd(x, y) ==
    LET lo == x[2] + y[2]
    IN  <<x[1] + y[1] + (lo \div WBase), lo % WBase>>

\* x * y
WideMul(x, y) ==
    LET ll  == x[2] * y[2]
        mid == x[1] * y[2] + x[2] * y[1] + (ll \div WBase)
    IN  <<x[1] * y[1] * WBase + mid, ll % WBase>>

\* ALU.exec on ADD and MUL: the table's result and the flag of its sign
wide_exec(op, in1, in2) ==
    LET op_result == IF op = ADD THEN WideAdd(in1, in2) ELSE WideMul(in1, in2)
    IN  IF op_result = <<0, 0>> THEN <<op_result, Z>>
        ELSE IF op_result[1] < 0 THEN <<op_result, M>>
        ELSE <<op_result, P>>

\* the model follows a value while its high digit is within -WideMaxHi ..
\* WideMaxHi, and a product while those of its factors are within
\* -WideMulHi .. WideMulHi
WideMaxHi == 131072
WideMulHi == 4

WideFollowed(op, in1, in2, value) ==
    /\ op = MUL => /\ in1[1] \in (-WideMulHi)..WideMulHi
                   /\ in2[1] \in (-WideMulHi)..WideMulHi
    /\ value[1] \in (-WideMaxHi)..WideMaxHi

\* the programs: r1 is set to a small number and then doubled, or squared,
\* in a loop
WidePrograms ==
    { << encode(Instruction(ADD, ALWAYS, 1, 0, 0, k)),
         encode(Instruction(op,  ALWAYS, 1, 1, 1, 0)),
         encode(Instruction(ADD, ALWAYS, 15, 0, 15, -1)) >> :
      k \in 1..3, op \in {ADD, MUL} }

WideInit ==
    /\ \E program \in WidePrograms :
          memory = [a \in 0..(Len(program) - 1) |-> program[a + 1]]
    /\ Fresh(NoPorts, MaxVal)
    /\ input = 0
    /\ CodecIdle
    /\ AluIdle
    /\ AsmIdle

\* CPU.step on an ADD or MUL whose predicate is satisfied
WideStep ==
    LET addr  == wide[15]
        word  == MemGet(memory, addr[2])
        i     == decode(word)
        pred  == InstrPredicate(condition, i.cond)
        left  == wide[RegIndex(i.reg_src1)]
        right == WideAdd(wide[RegIndex(i.reg_src2)], WideOf(i.offset))
        res   == wide_exec(i.op, left, right)
        advanced == RegPut(wide, 15, WideAdd(addr, WideOf(1)))
    IN  /\ addr[1] = 0
        /\ InRange(addr[2])
        /\ Decodable(word)
        /\ pred # 0
        /\ i.op \in {ADD, MUL}
        /\ WideFollowed(i.op, left, right, res[1])
        /\ wide' = RegPut(advanced, i.reg_target, res[1])
        /\ condition' = res[2]
        /\ last' = Obs("step", addr[2], word, pred, 1, <<>>, <<>>)
        /\ UNCHANGED <<registers, memory, halted, run_pc, ports, input, cap>>
        /\ UNCHANGED <<codec_vars, alu_call, asm>>

WideNext == WideStep

WideSpec == WideInit /\ [][WideNext]_vars

(***************************************************************************)
(* The machine specification: duck_machine.main.  A MemoryMappedIO of      *)
(* MachineSize cells with the input port at InPort and the output port at  *)
(* OutPort, an object program loaded at address 0, and run() from 0.       *)
(***************************************************************************)
MachineSize == 512
InPort      == 510
OutPort     == 511

DuckPorts == [in |-> {InPort}, out |-> {OutPort}]

\* STORE r1 -> X; SUB r1,r0,r0[1]; JUMP/P back; HALT; X: DATA 0
Scenario ==
    << encode(Instruction(STORE, ALWAYS, 1, 0, 15, 4)),
       encode(Instruction(SUB,   ALWAYS, 1, 0, 0, 1)),
       encode(Instruction(ADD,   P,      15, 0, 15, -2)),
       encode(Instruction(HALT,  ALWAYS, 0, 0, 0, 0)),
       0 >>

\* read a number, then print it and count it down while it is positive
CountDown ==
    << encode(Instruction(LOAD,  ALWAYS, 1, 0, 0, InPort)),
       encode(Instruction(STORE, ALWAYS, 1, 0, 0, OutPort)),
       encode(Instruction(SUB,   ALWAYS, 1, 1, 0, 1)),
       encode(Instruction(ADD,   P,      15, 0, 15, -2)),
       encode(Instruction(HALT,  ALWAYS, 0, 0, 0, 0)) >>

Programs ==
    { Scenario,
      CountDown,
      \* load a cell into r1, jump through a cell, load and discard
      << encode(Instruction(LOAD,  ALWAYS, 1, 0, 15, 3)),
         encode(Instruction(LOAD,  ALWAYS, 15, 0, 15, 3)),
         encode(Instruction(HALT,  ALWAYS, 0, 0, 0, 0)),
         2,
         5,
         encode(Instruction(LOAD,  ALWAYS, 0, 0, 15, -2)),
         encode(Instruction(HALT,  ALWAYS, 0, 0, 0, 0)) >>,
      \* print the PC
      << encode(Instruction(STORE, ALWAYS, 15, 0, 0, OutPort)),
         encode(Instruction(HALT,  ALWAYS, 0, 0, 0, 0)) >>,
      \* no HALT: the run goes on through the empty cells and the ports
      << encode(Instruction(ADD,   ALWAYS, 1, 0, 0, 1)) >>,
      \* the reserved opcode
      << insert(instr_field, 4, 0) >>,
      \* accesses outside the memory
      << encode(Instruction(LOAD,  ALWAYS, 1, 0, 0, -1)) >>,
      << 0, encode(Instruction(STORE, ALWAYS, 0, 0, 15, 511)) >> }

\* load: the words of the object file put at addresses 0, 1, ...
Loaded(program) ==
    [a \in 0..(MachineSize - 1) |->
        IF a < Len(program) THEN program[a + 1] ELSE 0]

MachineInit ==
    /\ \E program \in Programs : memory = Loaded(program)
    /\ Fresh(DuckPorts, MachineSize)
    /\ input \in InputValues
    /\ CodecIdle
    /\ AluIdle
    /\ AsmIdle

\* cpu.run(): from_addr defaults to 0
MachineRun ==
    /\ last.kind = "init"
    /\ RunFrom(0)

InLoop == run_pc = "loop" /\ StepCalled

MachineNext ==
    \/ MachineRun /\ UNCHANGED off_cpu_vars
    \/ StepFetchFault /\ InLoop /\ UNCHANGED off_cpu_vars
    \/ StepDecodeFault /\ InLoop /\ UNCHANGED off_cpu_vars
    \/ StepNotSatisfied /\ InLoop /\ UNCHANGED off_cpu_vars
    \/ StepStore /\ InLoop /\ UNCHANGED off_cpu_vars
    \/ StepStoreFault /\ InLoop /\ UNCHANGED off_cpu_vars
    \/ StepLoad /\ InLoop /\ UNCHANGED off_cpu_vars
    \/ StepLoadFault /\ InLoop /\ UNCHANGED off_cpu_vars
    \/ StepHalt /\ InLoop /\ UNCHANGED off_cpu_vars
    \/ StepArith /\ InLoop /\ UNCHANGED off_cpu_vars
    \/ RunReturn /\ UNCHANGED off_cpu_vars

MachineSpec == MachineInit /\ [][MachineNext]_vars

\* main() is one sequential process: while it can take a step, it does
MachineFairSpec == MachineSpec /\ WF_vars(MachineNext)

(***************************************************************************)
(* The codec specification                                                 *)
(***************************************************************************)
CodecInit ==
    /\ c_instr \in LegalInstructions
    /\ c_word = 0
    /\ c_decoded = NoInstruction
    /\ codec_pc = "new"
    /\ memory = BlankMemory
    /\ Fresh(NoPorts, MaxVal)
    /\ input = 0
    /\ AluIdle
    /\ AsmIdle

Encode ==
    /\ codec_pc = "new"
    /\ c_word' = encode(c_instr)
    /\ codec_pc' = "encoded"
    /\ UNCHANGED <<c_instr, c_decoded>>
    /\ UNCHANGED <<cpu_vars, alu_call>>

Decode ==
    /\ codec_pc = "encoded"
    /\ Decodable(c_word)
    /\ c_decoded' = decode(c_word)
    /\ codec_pc' = "decoded"
    /\ UNCHANGED <<c_instr, c_word>>
    /\ UNCHANGED <<cpu_vars, alu_call>>

CodecNext == Encode \/ Decode

CodecSpec == CodecInit /\ [][CodecNext]_vars

(***************************************************************************)
(* The word specification: decode is called on a word taken from memory.   *)
(* The opcode and predicate fields take every value, the register and      *)
(* offset fields their corners, the reserved bit both values.  A word with *)
(* bit 31 set is written as the negative integer with the same bits 0..31  *)
(* (word - 2^32), on which Python's >> and & give the same fields.         *)
(***************************************************************************)
FieldCorners ==
    {<<0, 0, 0, 0>>, <<15, 15, 15, 1023>>, <<8, 7, 1, 512>>, <<1, 8, 7, 511>>,
     <<7, 0, 15, 1>>, <<0, 15, 8, 1022>>}

WordOf(res, op, cond, fc) ==
    LET w1 == insert(instr_field, op, 0)
        w2 == insert(cond_field, cond, w1)
        w3 == insert(reg_target_field, fc[1], w2)
        w4 == insert(reg_src1_field, fc[2], w3)
        w5 == insert(reg_src2_field, fc[3], w4)
        w6 == insert(offset_field, fc[4], w5)
    IN  IF res = 1 THEN (w6 - 2147483647) - 1 ELSE w6

RawWords ==
    {WordOf(res, op, cond, fc) :
        res \in 0..1, op \in 0..31, cond \in 0..15, fc \in FieldCorners}

WordInit ==
    /\ c_word \in RawWords
    /\ c_instr = NoInstruction
    /\ c_decoded = NoInstruction
    /\ codec_pc = "word"
    /\ memory = BlankMemory
    /\ Fresh(NoPorts, MaxVal)
    /\ input = 0
    /\ AluIdle
    /\ AsmIdle

DecodeWord ==
    /\ codec_pc = "word"
    /\ Decodable(c_word)
    /\ c_decoded' = decode(c_word)
    /\ codec_pc' = "word_decoded"
    /\ UNCHANGED <<c_instr, c_word>>
    /\ UNCHANGED <<cpu_vars, alu_call>>

\* OpCode(...) or CondFlag(...) raises ValueError
DecodeWordFault ==
    /\ codec_pc = "word"
    /\ ~Decodable(c_word)
    /\ codec_pc' = "word_invalid"
    /\ UNCHANGED <<c_instr, c_word, c_decoded>>
    /\ UNCHANGED <<cpu_vars, alu_call>>

WordNext == DecodeWord \/ DecodeWordFault

WordSpec == WordInit /\ [][WordNext]_vars

(***************************************************************************)
(* The field specification: Instruction.__init__ checks nothing, so the    *)
(* register and offset fields of an Instruction can hold any integer.      *)
(***************************************************************************)
AnyRegisters == {<<0, 0, 0>>, <<15, 15, 15>>, <<16, 1, 2>>, <<1, 17, 0>>,
                 <<3, 2, 31>>, <<-1, 16, -16>>, <<255, 0, 256>>}
AnyOffsets   == {-1024, -513, -512, -1, 0, 511, 512, 600, 1023, 1024, 2000}

AnyInstructions ==
    {Instruction(op, c, r[1], r[2], r[3], off) :
        op \in OpCode, c \in 0..15, r \in AnyRegisters, off \in AnyOffsets}

FieldInit ==
    /\ c_instr \in AnyInstructions
    /\ c_word = 0
    /\ c_decoded = NoInstruction
    /\ codec_pc = "unchecked"
    /\ memory = BlankMemory
    /\ Fresh(NoPorts, MaxVal)
    /\ input = 0
    /\ AluIdle
    /\ AsmIdle

EncodeUnchecked ==
    /\ codec_pc = "unchecked"
    /\ c_word' = encode(c_instr)
    /\ codec_pc' = "unchecked_encoded"
    /\ UNCHANGED <<c_instr, c_decoded>>
    /\ UNCHANGED <<cpu_vars, alu_call>>

FieldNext == EncodeUnchecked

FieldSpec == FieldInit /\ [][FieldNext]_vars

(***************************************************************************)
(* The assembler (asm/assembler_phase1.py, asm/assembler_phase2.py).  A    *)
(* source line is a record of what is written on it; form tells which of   *)
(* the shapes the text has:                                                *)
(*   "comment"   blank, a comment, a label alone                           *)
(*   "full"      opcode/predicate  rT,rS1,rS2[disp]                        *)
(*   "data"      DATA value                                                *)
(*   "memop"     opcode/predicate  rT,label                                *)
(*   "jump"      opcode/predicate  label                                   *)
(* A part that is not written is "" or <<>>; a register rN is the number N;*)
(* a predicate is the sequence of the flag names written.                  *)
(***************************************************************************)
AsmLine(form, label, opcode, predicate, target, src1, src2, offset, labelref, value) ==
    [form |-> form, label |-> label, opcode |-> opcode,
     predicate |-> predicate, target |-> target, src1 |-> src1,
     src2 |-> src2, offset |-> offset, labelref |-> labelref,
     value |-> value]

CommentLine(label) ==
    AsmLine("comment", label, "", <<>>, 0, 0, 0, <<>>, "", <<>>)
FullLine(label, opcode, predicate, target, src1, src2, offset) ==
    AsmLine("full", label, opcode, predicate, target, src1, src2, offset,
            "", <<>>)
DataLine(label, value) ==
    AsmLine("data", label, "DATA", <<>>, 0, 0, 0, <<>>, "", value)
MemOpLine(label, opcode, predicate, target, labelref) ==
    AsmLine("memop", label, opcode, predicate, target, 0, 0, <<>>, labelref,
            <<>>)
JumpLine(label, opcode, predicate, labelref) ==
    AsmLine("jump", label, opcode, predicate, 0, 0, 0, <<>>, labelref, <<>>)

\* PATTERNS of phase 1: the form each regular expression matches, and the
\* AsmSrcKind it stands for.  ASM_JUMP_PAT is the text of ASM_MEMOP_PAT:
\* it asks for a target register and a comma before the label.
PATTERNS ==
    << <<"full", "FULL">>, <<"data", "DATA">>, <<"comment", "COMMENT">>,
       <<"memop", "MEMOP">>, <<"memop", "JUMP">> >>

\* PATTERNS of phase 2
ASSEMBLE_PATTERNS ==
    << <<"full", "FULL">>, <<"data", "DATA">>, <<"comment", "COMMENT">> >>

\* the kind of the first pattern that matches, or "SyntaxError"
first_match(patterns, line) ==
    LET hits == {i \in 1..Len(patterns) : patterns[i][1] = line.form}
    IN  IF hits = {} THEN "SyntaxError"
        ELSE patterns[CHOOSE i \in hits : \A j \in hits : i <= j][2]

parse_line(line) == first_match(PATTERNS, line)

ERROR_LIMIT == 5

\* resolve, one turn of its loop: a line that does not parse is ignored
resolve_line(st, line) ==
    LET kind == parse_line(line)
    IN  IF kind = "SyntaxError" THEN st
        ELSE [labels  |-> IF line.label # ""
                          THEN (line.label :> st.address) @@ st.labels
                          ELSE st.labels,
              address |-> IF kind # "COMMENT" THEN st.address + 1
                          ELSE st.address]

\* the turns lo..hi of the loop, in order: the first half, then the rest
RECURSIVE resolve_loop(_, _, _, _)
resolve_loop(lines, lo, hi, st) ==
    IF lo > hi THEN st
    ELSE IF lo = hi THEN resolve_line(st, lines[lo])
    ELSE LET mid   == (lo + hi) \div 2
             first == resolve_loop(lines, lo, mid, st)
         IN  IF first.address >= 0
             THEN resolve_loop(lines, mid + 1, hi, first) ELSE first

resolve(lines) ==
    resolve_loop(lines, 1, Len(lines),
                 [labels |-> [l \in {} |-> 0], address |-> 0]).labels

\* the line written for a MEMOP or JUMP line; the label referred to is
\* kept as the comment
resolved_line(line, pc_relative) ==
    AsmLine("full", line.label, line.opcode, line.predicate, line.target,
            0, 15, <<pc_relative>>, line.labelref, <<>>)

\* mutant: a comment line takes an address too
transform_line_counts_comments(st, labels, line) ==
    LET kind == parse_line(line)
        raised ==
            \/ kind = "SyntaxError"
            \/ kind = "DATA" /\ line.value = <<>>
            \/ kind \in {"MEMOP", "JUMP"} /\ line.labelref \notin DOMAIN labels
        full == IF kind \in {"MEMOP", "JUMP"}
                THEN resolved_line(line, labels[line.labelref] - st.address)
                ELSE line
    IN  IF st.exit THEN st
        ELSE IF raised
        THEN [st EXCEPT !.errors = @ + 1, !.exit = st.errors + 1 > ERROR_LIMIT]
        ELSE [st EXCEPT !.lines = Append(@, full),
                        !.address = @ + 1]

\* transform, one turn of its loop: a line that raises is counted, not
\* written, and takes no address; more than ERROR_LIMIT errors end the
\* process
transform_line(st, labels, line) ==
    LET kind == parse_line(line)
        raised ==
            \/ kind = "SyntaxError"
            \/ kind = "DATA" /\ line.value = <<>>
            \/ kind \in {"MEMOP", "JUMP"} /\ line.labelref \notin DOMAIN labels
        full == IF kind \in {"MEMOP", "JUMP"}
                THEN resolved_line(line, labels[line.labelref] - st.address)
                ELSE line
    IN  IF st.exit THEN st
        ELSE IF raised
        THEN [st EXCEPT !.errors = @ + 1, !.exit = st.errors + 1 > ERROR_LIMIT]
        ELSE [st EXCEPT !.lines = Append(@, full),
                        !.address = IF kind # "COMMENT" THEN @ + 1 ELSE @]

RECURSIVE transform_loop(_, _, _, _, _)
transform_loop(lines, labels, lo, hi, st) ==
    IF lo > hi THEN st
    ELSE IF lo = hi THEN transform_line(st, labels, lines[lo])
    ELSE LET mid   == (lo + hi) \div 2
             first == transform_loop(lines, labels, lo, mid, st)
         IN  IF first.address >= 0
             THEN transform_loop(lines, labels, mid + 1, hi, first)
             ELSE first

transform(lines) ==
    transform_loop(lines, resolve(lines), 1, Len(lines),
                   [lines |-> <<>>, address |-> 0, errors |-> 0,
                    exit |-> FALSE])

\* OpCode[name], CondFlag[name], NAMED_REGS
OpCodeByName ==
    [n \in {"HALT", "LOAD", "STORE", "ADD", "SUB", "MUL", "DIV"} |->
        CASE n = "HALT" -> HALT [] n = "LOAD" -> LOAD [] n = "STORE" -> STORE
          [] n = "ADD" -> ADD [] n = "SUB" -> SUB [] n = "MUL" -> MUL
          [] n = "DIV" -> DIV]

CondFlagByName ==
    [n \in {"M", "Z", "P", "V", "NEVER", "ALWAYS"} |->
        CASE n = "M" -> M [] n = "Z" -> Z [] n = "P" -> P [] n = "V" -> V
          [] n = "NEVER" -> NEVER [] n = "ALWAYS" -> ALWAYS]

NAMED_REGS == 0..15

BitOr(a, b) == a + b - BitAnd(a, b)

\* [flag.name for flag in CondFlag]: every member, or, where iterating a
\* Flag yields its single-bit members only (Python 3.11 on), M, Z, P and V
FlagNamesListed ==
    { {"M", "Z", "P", "V", "NEVER", "ALWAYS"}, {"M", "Z", "P", "V"} }

RECURSIVE composite(_)
composite(m) ==
    IF m = <<>> THEN NEVER
    ELSE BitOr(CondFlagByName[Head(m)], composite(Tail(m)))

\* to_flag: the member of that name if the name is listed, else the flags
\* of the letters or-ed together; a letter that names no flag raises
to_flag_raises(m, listed) ==
    /\ ~(Len(m) = 1 /\ m[1] \in listed)
    /\ \E i \in 1..Len(m) : m[i] \notin {"M", "Z", "P", "V"}

to_flag(m, listed) ==
    IF Len(m) = 1 /\ m[1] \in listed THEN CondFlagByName[m[1]]
    ELSE composite(m)

\* fill_defaults
fill_defaults(fields) ==
    [fields EXCEPT
        !.predicate = IF @ = <<>> THEN <<"ALWAYS">> ELSE @,
        !.offset = IF @ = <<>> THEN <<0>> ELSE @]

\* instruction_from_dict raises a KeyError
instruction_from_dict_raises(d, listed) ==
    \/ d.opcode \notin DOMAIN OpCodeByName
    \/ to_flag_raises(d.predicate, listed)
    \/ {d.target, d.src1, d.src2} \ NAMED_REGS # {}

instruction_from_dict(d, listed) ==
    Instruction(OpCodeByName[d.opcode], to_flag(d.predicate, listed),
                d.target, d.src1, d.src2, d.offset[1])

\* assemble (phase 2), one turn of its loop: one word for a FULL and for a
\* DATA line
assemble_line(st, listed, line) ==
    LET kind == first_match(ASSEMBLE_PATTERNS, line)
        fields == fill_defaults(line)
        raised ==
            \/ kind = "SyntaxError"
            \/ kind = "DATA" /\ line.value = <<>>
            \/ kind = "FULL" /\ instruction_from_dict_raises(fields, listed)
    IN  IF st.exit THEN st
        ELSE IF raised
        THEN [st EXCEPT !.errors = @ + 1, !.exit = st.errors + 1 > ERROR_LIMIT]
        ELSE [st EXCEPT !.words =
                 CASE kind = "FULL" ->
                        Append(@, encode(instruction_from_dict(fields, listed)))
                   [] kind = "DATA" -> Append(@, line.value[1])
                   [] OTHER -> @]

RECURSIVE assemble_loop(_, _, _, _, _)
assemble_loop(lines, listed, lo, hi, st) ==
    IF lo > hi THEN st
    ELSE IF lo = hi THEN assemble_line(st, listed, lines[lo])
    ELSE LET mid   == (lo + hi) \div 2
             first == assemble_loop(lines, listed, lo, mid, st)
         IN  IF first.errors >= 0
             THEN assemble_loop(lines, listed, mid + 1, hi, first)
             ELSE first

assemble(lines, listed) ==
    assemble_loop(lines, listed, 1, Len(lines),
                  [words |-> <<>>, errors |-> 0, exit |-> FALSE])

(***************************************************************************)
(* The assembler specification: a source program is transformed by phase   *)
(* 1, assembled by phase 2, loaded at address 0 of a Memory of MachineSize *)
(* cells and run from 0.                                                   *)
(***************************************************************************)
\* addresses of the line that refers to memory and of the label referred to
AsmAddrs == {0, 1, 2, 255, 511}

\* a comment, then one cell per line: 'op/predicate r1,lab' at address a,
\* the label lab at address L, HALT at the end where there is room for it,
\* ADD r0,r0,r0 elsewhere, each with the same predicate
MemRefProgram(a, L, op, predicate) ==
    LET top == IF a > L THEN a ELSE L
        n   == IF top + 1 = MachineSize THEN MachineSize ELSE top + 2
    IN  <<CommentLine("")>> \o
        [k \in 1..n |->
            CASE k - 1 = a ->
                   MemOpLine(IF L = a THEN "lab" ELSE "", op, predicate, 1,
                             "lab")
              [] k - 1 = L /\ L # a ->
                   FullLine("lab", "ADD", predicate, 0, 0, 0, <<>>)
              [] k - 1 > top ->
                   FullLine("", "HALT", predicate, 0, 0, 0, <<>>)
              [] OTHER ->
                   FullLine("", "ADD", predicate, 0, 0, 0, <<>>)]

\* the example of transform's docstring
JumpExample ==
    << CommentLine(""),
       MemOpLine("again", "STORE", <<>>, 1, "x"),
       FullLine("", "SUB", <<>>, 1, 0, 0, <<1>>),
       JumpLine("", "JUMP", <<"P">>, "again"),
       FullLine("", "HALT", <<>>, 0, 0, 0, <<>>),
       DataLine("x", <<0>>),
       CommentLine("") >>

AsmPrograms ==
    {MemRefProgram(a, L, v[1], v[2]) :
        a \in AsmAddrs, L \in AsmAddrs,
        v \in {<<"LOAD", <<>>>>, <<"STORE", <<"M", "Z", "P", "V">>>>}}
    \cup
    { JumpExample,
      \* JUMP with no predicate, forward, and a label on a line of its own
      << JumpLine("", "JUMP", <<>>, "done"),
         FullLine("", "ADD", <<"Z", "P">>, 1, 0, 0, <<7>>),
         CommentLine("done"),
         FullLine("", "HALT", <<>>, 0, 0, 0, <<>>) >>,
      \* JUMP written with its target register
      << MemOpLine("", "JUMP", <<>>, 15, "done"),
         MemOpLine("", "LOAD", <<"ALWAYS">>, 2, "done"),
         FullLine("done", "HALT", <<>>, 0, 0, 0, <<>>) >>,
      \* a DATA line without a value, and a label nothing defines
      << DataLine("x", <<>>),
         MemOpLine("", "LOAD", <<>>, 1, "y"),
         MemOpLine("", "STORE", <<>>, 1, "nowhere"),
         FullLine("", "HALT", <<>>, 0, 0, 0, <<>>),
         DataLine("y", <<5>>) >> }

\* the registers are followed up to 2^30, above every instruction word
AsmInit ==
    /\ \E program \in AsmPrograms, listed \in FlagNamesListed :
          asm = [pc |-> "source", src |-> program, out |-> <<>>,
                 words |-> <<>>, errors |-> 0, listed |-> listed]
    /\ memory = Loaded(<<>>)
    /\ Fresh(NoPorts, Pow2(30))
    /\ input = 0
    /\ CodecIdle
    /\ AluIdle

\* assembler_phase1.main
Transform ==
    /\ asm.pc = "source"
    /\ LET t == transform(asm.src)
       IN  asm' = [asm EXCEPT !.out = IF t.exit THEN <<>> ELSE t.lines,
                              !.errors = t.errors,
                              !.pc = IF t.exit THEN "exit" ELSE "transformed"]
    /\ UNCHANGED <<codec_vars, alu_call>>
    /\ UNCHANGED <<registers, memory, condition, halted, last, run_pc, ports,
                   input, cap, wide>>

\* assembler_phase2.main on the output of phase 1
Assemble ==
    /\ asm.pc = "transformed"
    /\ LET t == assemble(asm.out, asm.listed)
       IN  asm' = [asm EXCEPT !.words = IF t.exit THEN <<>> ELSE t.words,
                              !.errors = asm.errors + t.errors,
                              !.pc = IF t.exit THEN "exit" ELSE "assembled"]
    /\ UNCHANGED <<codec_vars, alu_call>>
    /\ UNCHANGED <<registers, memory, condition, halted, last, run_pc, ports,
                   input, cap, wide>>

\* duck_machine.load
Load ==
    /\ asm.pc = "assembled"
    /\ memory' = Loaded(asm.words)
    /\ asm' = [asm EXCEPT !.pc = "loaded"]
    /\ UNCHANGED <<codec_vars, alu_call>>
    /\ UNCHANGED <<registers, condition, halted, last, run_pc, ports,
                   input, cap, wide>>

AsmNext ==
    \/ Transform
    \/ Assemble
    \/ Load
    \/ asm.pc = "loaded" /\ MachineRun /\ UNCHANGED off_cpu_vars
    \/ StepFetchFault /\ InLoop /\ UNCHANGED off_cpu_vars
    \/ StepNotSatisfied /\ InLoop /\ UNCHANGED off_cpu_vars
    \/ StepStore /\ InLoop /\ UNCHANGED off_cpu_vars
    \/ StepLoad /\ InLoop /\ UNCHANGED off_cpu_vars
    \/ StepHalt /\ InLoop /\ UNCHANGED off_cpu_vars
    \/ StepArith /\ InLoop /\ UNCHANGED off_cpu_vars
    \/ RunReturn /\ UNCHANGED off_cpu_vars

AsmSpec == AsmInit /\ [][AsmNext]_vars

(***************************************************************************)
(* The compiler's comparisons (compiler/expr.py, codegen_context.py).  A   *)
(* Context is the record of its assm_lines, its consts and its free        *)
(* registers; a comparison is the record of its class and its operands,    *)
(* which are IntConst values.                                              *)
(***************************************************************************)
\* super().__init__(left, right, opsym, cond_code_true, cond_code_false)
Comparisons ==
    [c \in {"NE", "GT", "GE", "LT", "LE", "EQ"} |->
        CASE c = "NE" -> [opsym |-> "!=", cond_code_true |-> <<"P", "M">>,
                          cond_code_false |-> <<"Z">>]
          [] c = "GT" -> [opsym |-> ">", cond_code_true |-> <<"P">>,
                          cond_code_false |-> <<"Z", "M">>]
          [] c = "GE" -> [opsym |-> ">=", cond_code_true |-> <<"P", "Z">>,
                          cond_code_false |-> <<"M">>]
          [] c = "LT" -> [opsym |-> "<", cond_code_true |-> <<"M">>,
                          cond_code_false |-> <<"P", "Z">>]
          [] c = "LE" -> [opsym |-> "<=", cond_code_true |-> <<"Z", "M">>,
                          cond_code_false |-> <<"P">>]
          [] c = "EQ" -> [opsym |-> "==", cond_code_true |-> <<"Z">>,
                          cond_code_false |-> <<"P", "M">>]]

\* Context()
NewContext ==
    [assm_lines |-> <<>>, consts |-> {}, registers |-> [i \in 1..14 |-> i]]

\* allocate_register: the register popped, and the context without it
allocate_register(context) ==
    << context.registers[Len(context.registers)],
       [context EXCEPT !.registers = SubSeq(@, 1, Len(@) - 1)] >>

free_register(context, reg) ==
    [context EXCEPT !.registers = Append(@, reg)]

add_line(context, line) ==
    [context EXCEPT !.assm_lines = Append(@, line)]

const_label(value) ==
    IF value < 0 THEN "const_n_" \o ToString(-value)
    ELSE "const_" \o ToString(value)

\* IntConst.gen: the constant is remembered and loaded through its label
IntConst_gen(context, value, target) ==
    add_line([context EXCEPT !.consts = @ \cup {value}],
             MemOpLine("", "LOAD", <<>>, target, const_label(value)))

\* mutant: the jump is predicated on cond_code_true whatever jump_cond is
condjump_ignores_jump_cond(context, e, target, label, jump_cond) ==
    LET c1   == IntConst_gen(context, e.left, target)
        a    == allocate_register(c1)
        reg  == a[1]
        c2   == IntConst_gen(a[2], e.right, reg)
        cond == Comparisons[e.class].cond_code_true
        c3   == add_line(c2, FullLine("", "SUB", <<>>, 0, target, reg, <<>>))
        c4   == add_line(c3, JumpLine("", "JUMP", cond, label))
    IN  free_register(c4, reg)

\* Comparison.condjump
condjump(context, e, target, label, jump_cond) ==
    LET c1   == IntConst_gen(context, e.left, target)
        a    == allocate_register(c1)
        reg  == a[1]
        c2   == IntConst_gen(a[2], e.right, reg)
        cond == IF jump_cond THEN Comparisons[e.class].cond_code_true
                ELSE Comparisons[e.class].cond_code_false
        c3   == add_line(c2, FullLine("", "SUB", <<>>, 0, target, reg, <<>>))
        c4   == add_line(c3, JumpLine("", "JUMP", cond, label))
    IN  free_register(c4, reg)

\* sorted(self.consts), each as its DATA line
RECURSIVE const_lines(_)
const_lines(consts) ==
    IF consts = {} THEN <<>>
    ELSE LET least == CHOOSE v \in consts : \A w \in consts : v <= w
         IN  <<DataLine(const_label(least), <<least>>)>>
             \o const_lines(consts \ {least})

get_lines(context) == context.assm_lines \o const_lines(context.consts)

(***************************************************************************)
(* The comparison specification: condjump is called on a fresh Context, as *)
(* the tests call it; then the code it asks for, with the jump as the      *)
(* assembler documents it (ADD/cond r15,r0,r15[disp]), is run: the two     *)
(* constants are loaded, SUB r0,left,right sets the condition, and the     *)
(* jump, two cells forward, passes over a HALT.                            *)
(***************************************************************************)
CmpMax == 2

\* the cells of the program: the jump of cell 3 goes to cell 5
CompareImage(e, cond, listed) ==
    << encode(Instruction(LOAD, ALWAYS, 14, 0, 15, 6)),
       encode(Instruction(LOAD, ALWAYS, 13, 0, 15, 6)),
       encode(Instruction(SUB,  ALWAYS, 0, 14, 13, 0)),
       encode(Instruction(ADD,  to_flag(cond, listed), 15, 0, 15,
                          2)),
       encode(Instruction(HALT, ALWAYS, 0, 0, 0, 0)),
       encode(Instruction(HALT, ALWAYS, 0, 0, 0, 0)),
       e.left,
       e.right >>

CompareInit ==
    /\ \E c \in DOMAIN Comparisons, l \in (-CmpMax)..CmpMax,
          r \in (-CmpMax)..CmpMax,
          b \in BOOLEAN, listed \in FlagNamesListed :
          asm = [pc |-> "expr",
                 src |-> <<[class |-> c, left |-> l, right |-> r,
                            jump_cond |-> b]>>,
                 out |-> <<>>, words |-> <<>>, errors |-> 0,
                 listed |-> listed]
    /\ memory = Loaded(<<>>)
    /\ Fresh(NoPorts, MachineSize)
    /\ input = 0
    /\ CodecIdle
    /\ AluIdle

\* context = Context(); target = context.allocate_register();
\* e.condjump(context, target, label, jump_cond); context.get_lines()
Compile ==
    /\ asm.pc = "expr"
    /\ LET e == asm.src[1]
           a == allocate_register(NewContext)
           c == condjump(a[2], e, a[1], "there", e.jump_cond)
       IN  asm' = [asm EXCEPT !.out = get_lines(c), !.pc = "compiled"]
    /\ UNCHANGED <<codec_vars, alu_call>>
    /\ UNCHANGED <<registers, memory, condition, halted, last, run_pc, ports,
                   input, cap, wide>>

\* the program asked for is put in memory
LoadCompiled ==
    /\ asm.pc = "compiled"
    /\ asm' = [asm EXCEPT
                  !.words = CompareImage(asm.src[1], asm.out[4].predicate,
                                         asm.listed),
                  !.pc = "loaded"]
    /\ memory' = Loaded(asm'.words)
    /\ UNCHANGED <<codec_vars, alu_call>>
    /\ UNCHANGED <<registers, condition, halted, last, run_pc, ports,
                   input, cap, wide>>

CompareNext ==
    \/ Compile
    \/ LoadCompiled
    \/ asm.pc = "loaded" /\ MachineRun /\ UNCHANGED off_cpu_vars
    \/ StepNotSatisfied /\ InLoop /\ UNCHANGED off_cpu_vars
    \/ StepLoad /\ InLoop /\ UNCHANGED off_cpu_vars
    \/ StepHalt /\ InLoop /\ UNCHANGED off_cpu_vars
    \/ StepArith /\ InLoop /\ UNCHANGED off_cpu_vars
    \/ RunReturn /\ UNCHANGED off_cpu_vars

CompareSpec == CompareInit /\ [][CompareNext]_vars

(***************************************************************************)
(* The ALU specification: one call of ALU.exec on every opcode and every   *)
(* pair of operands in -AluMax..AluMax                                     *)
(***************************************************************************)
AluMax == 12

AluInit ==
    /\ \E op \in OpCode, in1 \in (-AluMax)..AluMax, in2 \in (-AluMax)..AluMax :
          alu_call = AluCall(op, in1, in2, <<0, 0>>, "called")
    /\ CodecIdle
    /\ AsmIdle
    /\ memory = BlankMemory
    /\ Fresh(NoPorts, MaxVal)
    /\ input = 0

AluExec ==
    /\ alu_call.pc = "called"
    /\ alu_call' = [alu_call EXCEPT
                       !.result = exec(alu_call.op, alu_call.in1, alu_call.in2),
                       !.pc = "returned"]
    /\ UNCHANGED <<codec_vars, cpu_vars>>

AluNext == AluExec

AluSpec == AluInit /\ [][AluNext]_vars

(***************************************************************************)
(* C1.  Round trip: for every Instruction whose fields are in their legal  *)
(* ranges, decode(encode(i)) has the same op, cond, reg_target, reg_src1,  *)
(* reg_src2 and offset as i.                                               *)
(***************************************************************************)
C1_RoundTrip ==
    codec_pc = "decoded" =>
        /\ c_decoded.op = c_instr.op
        /\ c_decoded.cond = c_instr.cond
        /\ c_decoded.reg_target = c_instr.reg_target
        /\ c_decoded.reg_src1 = c_instr.reg_src1
        /\ c_decoded.reg_src2 = c_instr.reg_src2
        /\ c_decoded.offset = c_instr.offset

(***************************************************************************)
(* C2.  For every word that decodes successfully, the decoded reg_target,  *)
(* reg_src1 and reg_src2 are the unsigned values of their 4-bit fields,    *)
(* each in 0..15; only the offset is sign-extended.                        *)
(***************************************************************************)
C2_RegistersUnsigned ==
    codec_pc = "decoded" =>
        /\ c_decoded.reg_target = extract(reg_target_field, c_word)
        /\ c_decoded.reg_src1 = extract(reg_src1_field, c_word)
        /\ c_decoded.reg_src2 = extract(reg_src2_field, c_word)
        /\ {c_decoded.reg_target, c_decoded.reg_src1, c_decoded.reg_src2}
              \subseteq 0..15


(***************************************************************************)
(* Vocabulary of the step properties.  They are stated over a transition:  *)
(* the unprimed state is the state step() starts in, the primed one the    *)
(* state it leaves.  They read the fetched word through the unsigned       *)
(* fields and the flags through their bits, not through decode and "&".    *)
(***************************************************************************)
\* the transition is a step() / a step() that returned normally
IsStep       == last'.kind \in {"step", "fatal"}
StepReturned == last'.kind = "step"

HasFlag(c, f) == (c \div f) % 2 = 1
FlagsOverlap(c, p) == \E f \in {M, Z, P, V} : HasFlag(c, f) /\ HasFlag(p, f)

\* the fetched word's fields, unsigned
W_op     == extract(instr_field, instr_word)
W_pred   == extract(cond_field, instr_word)
W_target == extract(reg_target_field, instr_word)
W_src1   == extract(reg_src1_field, instr_word)
W_src2   == extract(reg_src2_field, instr_word)
W_offset == LET v == extract(offset_field, instr_word)
            IN  IF v >= 512 THEN v - 1024 ELSE v

\* the step fetched and decoded a word whose predicate is / is not satisfied
Satisfied    == IsStep /\ Decoded /\ FlagsOverlap(condition, W_pred)
NotSatisfied == IsStep /\ Decoded /\ ~FlagsOverlap(condition, W_pred)

\* the operands of the instruction, read from the registers before the step
W_left  == registers[W_src1]
W_right == registers[W_src2] + W_offset

\* the quotient q with l = q * r + m, m between 0 and r (the floor of l / r)
Abs(x) == IF x < 0 THEN -x ELSE x
FloorQuotient(l, r) ==
    CHOOSE q \in (-(Abs(l) + 1))..(Abs(l) + 1) :
        \E m \in (-Abs(r))..Abs(r) :
            /\ l = q * r + m
            /\ IF r > 0 THEN 0 <= m /\ m < r ELSE r < m /\ m <= 0

ArithFault == W_op = DIV /\ W_right = 0

ArithValue ==
    CASE W_op = ADD -> W_left + W_right
      [] W_op = SUB -> W_left - W_right
      [] W_op = MUL -> W_left * W_right
      [] W_op = DIV -> IF W_right = 0 THEN 0 ELSE FloorQuotient(W_left, W_right)

ArithFlag ==
    IF ArithFault THEN V
    ELSE IF ArithValue < 0 THEN M
    ELSE IF ArithValue = 0 THEN Z ELSE P

\* the registers with the PC advanced by one and then v written to register t
AdvanceThenWrite(t, v) ==
    [k \in 0..15 |->
        IF k = t /\ t # 0 THEN v
        ELSE IF k = 15 THEN registers[15] + 1
        ELSE registers[k]]

\* the instruction the last step fetched, for the witnesses
LastInstr == decode(last.instr_word)
LastExecuted == last.kind = "step" /\ last.alu = 1

(***************************************************************************)
(* C3.  Predication: step() executes the instruction (calls the ALU) if    *)
(* and only if the condition register and the instruction's predicate      *)
(* share a flag; an instruction with predicate NEVER is never executed and *)
(* leaves memory, condition and halted as they were.                       *)
(***************************************************************************)
C3_Predication ==
    [][ (IsStep /\ Decoded) =>
            /\ (last'.alu = 1) <=> FlagsOverlap(condition, W_pred)
            /\ (last'.alu = 0) <=> (last'.instr_predicate = 0)
            /\ W_pred = NEVER =>
                  /\ last'.alu = 0
                  /\ UNCHANGED <<memory, condition, halted>> ]_vars

\* a predicated instruction (predicate P alone) was executed under condition P
C3_Witness ==
    /\ LastExecuted
    /\ LastInstr.cond = P
    /\ last.instr_predicate = P

(***************************************************************************)
(* C4.  When the predicate of the fetched instruction is not satisfied,    *)
(* step() changes nothing but the program counter, which increases by 1:   *)
(* the other registers, the memory, the condition register and the halted  *)
(* flag keep their values, the ALU is not called and no memory access      *)
(* follows the instruction fetch; an unsatisfied HALT does not halt.       *)
(***************************************************************************)
C4_NotSatisfiedFrame ==
    [][ NotSatisfied =>
            /\ StepReturned
            /\ registers' = [registers EXCEPT ![15] = registers[15] + 1]
            /\ UNCHANGED <<memory, condition, halted>>
            /\ last'.alu = 0
            /\ last'.gets = <<>>
            /\ last'.puts = <<>> ]_vars

\* a HALT whose predicate is not NEVER was skipped and the CPU is not halted
C4_Witness ==
    /\ last.kind = "step"
    /\ last.alu = 0
    /\ LastInstr.op = HALT
    /\ LastInstr.cond # NEVER
    /\ ~halted
    /\ registers[15] = last.pc_addr + 1

(***************************************************************************)
(* C5.  A step() that executes ADD, SUB, MUL or DIV with a satisfied       *)
(* predicate writes op(reg[src1], reg[src2] + offset), computed from the   *)
(* registers before the step, into the target register and sets the        *)
(* condition register to the flag of that result; with target r0 the       *)
(* write is discarded and the condition register is still updated.         *)
(***************************************************************************)
C5_Arithmetic ==
    [][ (Satisfied /\ W_op \in {ADD, SUB, MUL, DIV}) =>
            /\ StepReturned
            /\ registers' = AdvanceThenWrite(W_target, ArithValue)
            /\ condition' = ArithFlag
            /\ UNCHANGED <<memory, halted>> ]_vars

\* SUB with target r0 gave a negative result: r0 reads 0, the condition is M
C5_Witness ==
    /\ LastExecuted
    /\ LastInstr.op = SUB
    /\ LastInstr.reg_target = 0
    /\ condition = M
    /\ registers[0] = 0

(***************************************************************************)
(* C6.  Ordering of the PC update in a step() at address a with a          *)
(* satisfied predicate: the operands are read before the PC is incremented *)
(* (a source of r15 reads a), the PC is a + 1 before the commit (a STORE   *)
(* of r15 stores a + 1, an instruction with another target leaves the PC   *)
(* at a + 1), and a commit to r15 overwrites the increment, so that        *)
(* ADD r15,r0,r15[k] leaves PC = a + k.                                    *)
(***************************************************************************)
C6_PCOrdering ==
    [][ (Satisfied /\ StepReturned) =>
            /\ (W_op = ADD /\ W_target = 15 /\ W_src1 = 0 /\ W_src2 = 15) =>
                  registers'[15] = instr_addr + W_offset
            /\ (W_op \in {ADD, SUB, MUL, DIV} /\ W_target = 15) =>
                  registers'[15] = ArithValue
            /\ (W_op \in {ADD, SUB, MUL, DIV} /\ W_src2 = 15) =>
                  W_right = instr_addr + W_offset
            /\ (W_op = STORE /\ W_target = 15) =>
                  memory'[W_left + W_right] = instr_addr + 1
            /\ (W_op \in {HALT, STORE} \/ W_target # 15) =>
                  registers'[15] = instr_addr + 1 ]_vars

\* ADD/P r15,r0,r15[-1] executed at address 1 has left the PC at 0
C6_Witness ==
    /\ LastExecuted
    /\ LastInstr = Instruction(ADD, P, -1, 0, -1, -1)
    /\ last.pc_addr = 1
    /\ registers[15] = 0

(***************************************************************************)
(* C7.  Only arithmetic instructions update the condition register: a      *)
(* step() that executes LOAD, STORE or HALT leaves it as it was, although  *)
(* the ALU returns a flag for these opcodes.                               *)
(***************************************************************************)
C7_ConditionFrame ==
    [][ (Satisfied /\ W_op \in {LOAD, STORE, HALT}) =>
            /\ last'.alu = 1
            /\ condition' = condition ]_vars

\* a LOAD was executed while the condition is M; the flag the ALU derives
\* from a readable address is Z or P
C7_Witness ==
    /\ LastExecuted
    /\ LastInstr.op = LOAD
    /\ last.gets # <<>>
    /\ condition = M

(***************************************************************************)
(* C8.  Zero register: in every state reached by step() calls and direct   *)
(* put() calls, reading register 0 yields 0.                               *)
(***************************************************************************)
C8_ZeroRegister == RegGet(registers, 0) = 0

\* a direct put() addressed register 0
C8_Witness ==
    /\ last.kind = "put"
    /\ last.reg = 0

(***************************************************************************)
(* C9.  The condition register is ALWAYS or exactly one of M, Z, P, V;     *)
(* after an executed arithmetic instruction it is exactly one of M, Z, P   *)
(* when no fault occurred and exactly V when one did.                      *)
(***************************************************************************)
C9_ConditionValues ==
    /\ [](condition \in {ALWAYS, M, Z, P, V})
    /\ [][ (Satisfied /\ W_op \in {ADD, SUB, MUL, DIV}) =>
              IF ArithFault THEN condition' = V
              ELSE condition' \in {M, Z, P} ]_vars

\* a division by zero has set the condition register to V
C9_Witness ==
    /\ LastExecuted
    /\ LastInstr.op = DIV
    /\ condition = V

(***************************************************************************)
(* C10.  Division by zero is not fatal: ALU.exec(DIV, n, 0) is (0, V), and *)
(* a step() executing DIV with right operand reg[src2] + offset = 0        *)
(* returns normally, having advanced the PC by 1 and then written 0 to the *)
(* target register, with the condition register V and halted unchanged.    *)
(***************************************************************************)
C10_DivisionByZero ==
    [][ (Satisfied /\ W_op = DIV /\ W_right = 0) =>
            /\ exec(DIV, W_left, 0) = <<0, V>>
            /\ StepReturned
            /\ registers' = AdvanceThenWrite(W_target, 0)
            /\ condition' = V
            /\ UNCHANGED <<memory, halted>> ]_vars

\* DIV r1,r1,r0[0] at address 0 has divided by zero and returned: r1 holds
\* 0, the condition is V, the PC is 1 and the CPU is not halted
C10_Witness ==
    /\ LastExecuted
    /\ LastInstr = Instruction(DIV, ALWAYS, 1, 1, 0, 0)
    /\ last.pc_addr = 0
    /\ condition = V
    /\ registers[1] = 0
    /\ registers[15] = last.pc_addr + 1
    /\ ~halted


(***************************************************************************)
(* Vocabulary of the ALU properties                                        *)
(***************************************************************************)
AluReturned == alu_call.pc = "returned"
SignFlag(v) == IF v < 0 THEN M ELSE IF v = 0 THEN Z ELSE P

(***************************************************************************)
(* C11.  For every left and every non-zero right, ALU.exec(DIV, left,      *)
(* right) returns the floor of left / right (rounding toward negative      *)
(* infinity, not toward zero) with the flag of that floored result:        *)
(* (12, -3) gives -4 and (3, 4) gives 0.                                   *)
(***************************************************************************)
C11_FloorDivision ==
    (AluReturned /\ alu_call.op = DIV /\ alu_call.in2 # 0) =>
        LET l == alu_call.in1
            r == alu_call.in2
            q == alu_call.result[1]
        IN  /\ q = FloorQuotient(l, r)
            /\ IF r > 0 THEN q * r <= l /\ l < (q + 1) * r
                        ELSE q * r >= l /\ l > (q + 1) * r
            /\ alu_call.result[2] = SignFlag(q)
            /\ (l = 12 /\ r = -3) => alu_call.result = <<-4, M>>
            /\ (l = 3 /\ r = 4) => alu_call.result = <<0, Z>>

\* 7 // -2 has returned -4 (truncation would give -3)
C11_Witness ==
    /\ AluReturned
    /\ alu_call.op = DIV
    /\ alu_call.in1 = 7
    /\ alu_call.in2 = -2
    /\ alu_call.result = <<-4, M>>

(***************************************************************************)
(* C12.  For every opcode of the ALU table and every operand pair that     *)
(* raises no fault, ALU.exec returns the table's result (ADD, LOAD, STORE: *)
(* left + right, SUB: left - right, MUL: left * right, HALT: 0) with flag  *)
(* M for a negative, Z for a zero and P for a positive result; V is        *)
(* returned only for DIV with a zero divisor.                              *)
(***************************************************************************)
C12_AluTable ==
    AluReturned =>
        LET op == alu_call.op
            l  == alu_call.in1
            r  == alu_call.in2
            res == alu_call.result
        IN  /\ (res[2] = V) <=> (op = DIV /\ r = 0)
            /\ res[2] # V => res[2] = SignFlag(res[1])
            /\ res[2] \in {M, Z, P, V}
            /\ op \in {ADD, LOAD, STORE} => res[1] = l + r
            /\ op = SUB => res[1] = l - r
            /\ op = MUL => res[1] = l * r
            /\ op = HALT => res[1] = 0

\* HALT on two positive operands has returned (0, Z)
C12_Witness ==
    /\ AluReturned
    /\ alu_call.op = HALT
    /\ alu_call.in1 = 9
    /\ alu_call.in2 = 8
    /\ alu_call.result = <<0, Z>>


(***************************************************************************)
(* C13.  decode(word) fails with an invalid-encoding error exactly when    *)
(* the 5-bit opcode field (bits 26-30) holds a value outside               *)
(* {0,1,2,3,5,6,7}; every word whose opcode field is legal decodes, for    *)
(* all 16 values of the predicate field and all values of the register,    *)
(* offset and reserved fields.                                             *)
(***************************************************************************)
C13_DecodeFailsOnOpcodeOnly ==
    /\ codec_pc = "word_invalid" =>
          extract(instr_field, c_word) \notin {0, 1, 2, 3, 5, 6, 7}
    /\ codec_pc = "word_decoded" =>
          /\ extract(instr_field, c_word) \in {0, 1, 2, 3, 5, 6, 7}
          /\ c_decoded.op = extract(instr_field, c_word)
          /\ c_decoded.cond = extract(cond_field, c_word)
    /\ codec_pc = "word" => (ENABLED DecodeWord \/ ENABLED DecodeWordFault)

\* the reserved opcode value 4 under predicate ALWAYS has been rejected
C13_Witness ==
    /\ codec_pc = "word_invalid"
    /\ extract(instr_field, c_word) = 4
    /\ extract(cond_field, c_word) = ALWAYS
    /\ extract(reg_target_field, c_word) = 15


(***************************************************************************)
(* C14.  A step() whose fetched word fails to decode leaves the machine    *)
(* state untouched: the PC and every other register, the condition         *)
(* register, the halted flag and every memory cell are as before the step, *)
(* and no step event is emitted to the observers.                          *)
(***************************************************************************)
C14_DecodeFaultFrame ==
    [][ (IsStep /\ InRange(registers[15]) /\ W_op \notin {0, 1, 2, 3, 5, 6, 7}) =>
            /\ last'.kind = "fatal"
            /\ UNCHANGED <<registers, memory, condition, halted>>
            /\ last'.events = <<>>
            /\ last'.outs = <<>> ]_vars

\* a step at address 1, after r1 was put to 3, failed on the reserved opcode
C14_Witness ==
    /\ last.kind = "fatal"
    /\ last.events = <<>>
    /\ registers[15] = 1
    /\ registers[1] = 3
    /\ extract(instr_field, memory[1]) = 4

(***************************************************************************)
(* C15.  No step() ends in a fatal error with the PC already advanced and  *)
(* no result written: a LOAD or STORE step whose computed address          *)
(* reg[src1] + reg[src2] + offset lies outside [0, size) included.         *)
(***************************************************************************)
C15_NoFatalAfterPCAdvance ==
    [][ (IsStep /\ last'.kind = "fatal") => registers'[15] = registers[15] ]_vars

(***************************************************************************)
(* C17.  run(from_addr) sets halted to false and the PC to from_addr, then *)
(* calls step() repeatedly; it returns only in a state where halted is     *)
(* true, and halted becomes true only through a step that executes a HALT  *)
(* instruction with a satisfied predicate: the loop ends only by an        *)
(* executed HALT or by a fatal error propagating out of step().            *)
(***************************************************************************)
C17_RunLoop ==
    [][ /\ last'.kind = "run" =>
              /\ run_pc = "idle" /\ run_pc' = "loop"
              /\ ~halted'
              /\ registers' = [registers EXCEPT ![15] = last'.from_addr]
              /\ UNCHANGED <<memory, condition>>
        /\ (run_pc = "loop" /\ run_pc' = "loop") =>
              /\ ~halted
              /\ last'.kind = "step"
        /\ (run_pc = "loop" /\ run_pc' = "idle") =>
              \/ /\ last'.kind = "returned"
                 /\ halted /\ halted'
                 /\ UNCHANGED <<registers, memory, condition>>
              \/ /\ last'.kind = "fatal"
                 /\ ~halted /\ ~halted'
        /\ (~halted /\ halted') =>
              /\ last'.kind = "step"
              /\ InRange(registers[15])
              /\ W_op = HALT
              /\ FlagsOverlap(condition, W_pred)
        /\ (halted /\ ~halted') => last'.kind = "run" ]_vars

\* run() has returned with the PC behind a HALT at address 1 of a program
\* that starts with HALT/ALWAYS
C17_Witness ==
    /\ last.kind = "returned"
    /\ run_pc = "idle"
    /\ halted
    /\ registers[15] = 2
    /\ extract(instr_field, memory[1]) = HALT
    /\ extract(instr_field, memory[0]) = HALT
    /\ extract(cond_field, memory[0]) = ALWAYS

(***************************************************************************)
(* C19.  Every step() whose fetch and decode succeed notifies the          *)
(* observers exactly once, with the PC value before the increment, the     *)
(* fetched word and the decoded instruction, before any register, memory,  *)
(* condition or halted change of that step, and also when the predicate is *)
(* not satisfied; a step whose fetch or decode fails notifies nobody.      *)
(***************************************************************************)
C19_NotifiedOnceBeforeChange ==
    [][ IsStep =>
          IF InRange(registers[15]) /\ W_op \in {0, 1, 2, 3, 5, 6, 7}
          THEN /\ Len(last'.events) = 1
               /\ last'.events[1].pc_addr = registers[15]
               /\ last'.events[1].instr_word = memory[registers[15]]
               /\ last'.events[1].instr = decode(memory[registers[15]])
               /\ last'.events[1].instr.op = W_op
               /\ last'.events[1].instr.cond = W_pred
               /\ last'.events[1].subject =
                     Subject(registers, memory, condition, halted)
          ELSE last'.events = <<>> ]_vars

\* a STORE at address 0 was announced with the memory it then changed
C19_Witness ==
    /\ LastExecuted
    /\ Len(last.events) = 1
    /\ last.events[1].instr.op = STORE
    /\ last.events[1].pc_addr = 0
    /\ last.events[1].subject.registers[15] = 0
    /\ last.events[1].subject.memory # memory
    /\ registers[15] = 1


(***************************************************************************)
(* C18.  PC-relative jump scenario: with the five words [STORE r1,r0,      *)
(* r15[4]; SUB r1,r0,r0[1]; ADD/P r15,r0,r15[-2]; HALT r0,r0,r0; DATA 0]   *)
(* loaded at addresses 0..4 of a fresh machine, run(0) jumps from address  *)
(* 2 back to address 0 exactly while the condition holds P, every executed *)
(* STORE copies r1 to cell 4 and nothing else changes that cell, and the   *)
(* run eventually returns halted with r1 <= 0 and cell 4 holding the value *)
(* r1 had at the last executed STORE (0, r1 ending at -1).                 *)
(***************************************************************************)
ScenarioLoaded == \A a \in 0..3 : memory[a] = Scenario[a + 1]

C18_ScenarioHalts ==
    /\ [][ (ScenarioLoaded /\ IsStep) =>
              /\ registers[15] = 0 =>
                    memory' = [memory EXCEPT ![4] = registers[1]]
              /\ registers[15] # 0 => memory' = memory
              /\ registers[15] = 2 =>
                    registers'[15] = IF HasFlag(condition, P) THEN 0 ELSE 3
              /\ registers[15] = 1 => registers'[1] = registers[1] - 1 ]_vars
    /\ (ScenarioLoaded /\ last.kind = "init") ~>
          /\ last.kind = "returned"
          /\ halted
          /\ registers[1] <= 0
          /\ registers[1] = -1
          /\ memory[4] = 0
          /\ registers[15] = 4

\* the scenario's run has returned behind its HALT
C18_Witness ==
    /\ ScenarioLoaded
    /\ last.kind = "returned"
    /\ halted
    /\ registers[1] = -1
    /\ memory[4] = 0
    /\ registers[15] = 4

(***************************************************************************)
(* C20.  With address 511 bound to an output callback as in the reference  *)
(* runtime, a step() executing a STORE whose computed address is 511 calls *)
(* the output callback exactly once, with the value of the target register *)
(* (for target r15 the incremented PC), and changes no backing memory      *)
(* cell, cell 511 included.                                                *)
(***************************************************************************)
C20_OutputPort ==
    [][ (/\ Satisfied
         /\ W_op = STORE
         /\ W_left + W_right = 511
         /\ 511 \in ports.out) =>
            /\ last'.kind = "step"
            /\ last'.outs =
                 << <<511, IF W_target = 15 THEN registers[15] + 1
                           ELSE registers[W_target]>> >>
            /\ memory' = memory
            /\ memory'[511] = 0 ]_vars

\* the count-down program has printed the 2 it had read
C20_Witness ==
    /\ LastExecuted
    /\ LastInstr.op = STORE
    /\ last.outs = << <<OutPort, 2>> >>
    /\ registers[1] = 2
    /\ memory[OutPort] = 0


(***************************************************************************)
(* C16.  Each register holds a 32-bit signed integer: after any sequence   *)
(* of step() calls starting from a fresh CPU, every register value lies in *)
(* [-2^31, 2^31 - 1], also after repeated ADD or MUL instructions whose    *)
(* mathematical result exceeds that range.                                 *)
(***************************************************************************)
C16_RegistersFit32Bits ==
    \A k \in 0..15 : wide[k][1] \in (-Pow2(16))..(Pow2(16) - 1)


(***************************************************************************)
(* C24.  A step() executing STORE at address a with a satisfied predicate  *)
(* writes to the memory cell reg[src1] + reg[src2] + offset (operands read *)
(* before the PC increment) the value the target register holds after the  *)
(* PC increment, so that a STORE of r15 stores a + 1; no other cell and no *)
(* register but the PC changes, and the PC ends at a + 1.                  *)
(***************************************************************************)
C24_Store ==
    [][ (Satisfied /\ W_op = STORE /\ InRange(W_left + W_right)) =>
            /\ StepReturned
            /\ memory' = [memory EXCEPT ![W_left + W_right] =
                             IF W_target = 15 THEN registers[15] + 1
                             ELSE registers[W_target]]
            /\ registers' = [registers EXCEPT ![15] = registers[15] + 1]
            /\ UNCHANGED <<condition, halted>> ]_vars

\* STORE r1,r0,r15[1] at address 0 has put r1 = 3 in cell 1
C24_Witness ==
    /\ LastExecuted
    /\ LastInstr = Instruction(STORE, ALWAYS, 1, 0, -1, 1)
    /\ last.pc_addr = 0
    /\ registers[1] = 3
    /\ memory[1] = 3
    /\ registers[15] = 1

(***************************************************************************)
(* C26.  A step() executing HALT at address a with a satisfied predicate   *)
(* sets halted to true and advances the PC to a + 1 and changes nothing    *)
(* else: the other registers, the memory and the condition register are    *)
(* unchanged whatever the register and offset fields are; the ALU is       *)
(* called and its result discarded.                                        *)
(***************************************************************************)
C26_Halt ==
    [][ (Satisfied /\ W_op = HALT) =>
            /\ StepReturned
            /\ halted'
            /\ registers' = [registers EXCEPT ![15] = registers[15] + 1]
            /\ UNCHANGED <<memory, condition>>
            /\ last'.alu = 1
            /\ last'.gets = <<>>
            /\ last'.puts = <<>> ]_vars

\* HALT/Z r1,r1,r1[3] has halted the CPU and left r1 = 3 and condition Z
C26_Witness ==
    /\ LastExecuted
    /\ LastInstr = Instruction(HALT, Z, 1, 1, 1, 3)
    /\ halted
    /\ registers[1] = 3
    /\ condition = Z
    /\ registers[15] = last.pc_addr + 1

(***************************************************************************)
(* C28.  For every register number n in 0..15, 8..15 included, a step() on *)
(* a word whose register field holds n reads and writes register n: the    *)
(* index the CPU derives from the decoded field names register n, the      *)
(* operands are the values of the registers named by src1 and src2, the    *)
(* only register written besides the PC is the one named by target, and a  *)
(* target of 15 writes the program counter.                                *)
(***************************************************************************)
C28_RegisterNaming ==
    [][ (IsStep /\ Decoded) =>
            /\ RegIndex(last'.events[1].instr.reg_target) = W_target
            /\ RegIndex(last'.events[1].instr.reg_src1) = W_src1
            /\ RegIndex(last'.events[1].instr.reg_src2) = W_src2
            /\ \A k \in 0..14 :
                  registers'[k] # registers[k] =>
                      k = W_target /\ W_op \notin {STORE, HALT}
            /\ (Satisfied /\ StepReturned /\ W_op \in {ADD, SUB, MUL, DIV}) =>
                  /\ W_target # 0 => registers'[W_target] = ArithValue
                  /\ W_target # 15 => registers'[15] = registers[15] + 1 ]_vars

\* MUL/MP r9,r1,r1[0] has squared r1 = -1 into register 9
C28_Witness ==
    /\ LastExecuted
    /\ LastInstr = Instruction(MUL, M + P, -7, 1, 1, 0)
    /\ registers[1] = -1
    /\ registers[9] = 1
    /\ registers[7] = 0


(***************************************************************************)
(* C25.  A step() executing LOAD at address a with a satisfied predicate   *)
(* sets the target register to the content of the memory cell reg[src1] +  *)
(* reg[src2] + offset and leaves every memory cell unchanged; with target  *)
(* r15 the PC ends at the loaded value instead of a + 1, and with target   *)
(* r0 the loaded value is discarded and only the PC changes.               *)
(***************************************************************************)
C25_Load ==
    [][ (/\ Satisfied
         /\ W_op = LOAD
         /\ InRange(W_left + W_right)
         /\ W_left + W_right \notin ports.in \cup ports.out) =>
            /\ StepReturned
            /\ registers' = AdvanceThenWrite(W_target, memory[W_left + W_right])
            /\ W_target = 15 => registers'[15] = memory[W_left + W_right]
            /\ W_target = 0 =>
                  registers' = [registers EXCEPT ![15] = registers[15] + 1]
            /\ last'.gets = <<W_left + W_right>>
            /\ UNCHANGED <<memory, condition, halted>> ]_vars

\* LOAD r15,r0,r15[3] at address 1 has left the PC at the 5 of cell 4
C25_Witness ==
    /\ LastExecuted
    /\ LastInstr = Instruction(LOAD, ALWAYS, -1, 0, -1, 3)
    /\ last.pc_addr = 1
    /\ memory[4] = 5
    /\ registers[15] = 5
    /\ registers[1] = 2


(***************************************************************************)
(* C29.  run(from_addr) resets only halted and the PC: the condition       *)
(* register, registers r0..r14 and the memory keep the values left by      *)
(* earlier execution, and the first instruction of the run is tested       *)
(* against the condition the previous run left, not against ALWAYS.        *)
(***************************************************************************)
C29_RunFrame ==
    [][ /\ last'.kind = "run" =>
              /\ condition' = condition
              /\ \A k \in 0..14 : registers'[k] = registers[k]
              /\ memory' = memory
        /\ (last.kind = "run" /\ IsStep /\ Decoded) =>
              /\ (last'.alu = 1) <=> FlagsOverlap(condition, W_pred)
              /\ last'.events[1].subject.condition = condition ]_vars

\* run(1) has begun with the condition M and the r1 = -2 of earlier
\* execution, on an instruction predicated on P
C29_Witness ==
    /\ last.kind = "run"
    /\ last.from_addr = 1
    /\ run_pc = "loop"
    /\ ~halted
    /\ condition = M
    /\ registers[1] = -2
    /\ registers[15] = 1
    /\ extract(cond_field, memory[1]) = P

(***************************************************************************)
(* C30.  step() does not consult the halted flag: called on a CPU whose    *)
(* halted flag is true it still fetches, decodes and executes the          *)
(* instruction at the PC and leaves halted true; a halted CPU is stopped   *)
(* only by the loop condition of run(), which calls step() only while      *)
(* halted is false.                                                        *)
(***************************************************************************)
C30_StepIgnoresHalted ==
    [][ /\ (halted /\ IsStep) =>
              /\ halted'
              /\ run_pc = "idle"
              /\ Decoded => Len(last'.events) = 1
              /\ NotSatisfied =>
                    registers' = [registers EXCEPT ![15] = registers[15] + 1]
              /\ Satisfied => last'.alu = 1
              /\ (Satisfied /\ W_op \in {ADD, SUB, MUL, DIV}) =>
                    /\ registers' = AdvanceThenWrite(W_target, ArithValue)
                    /\ condition' = ArithFlag
        /\ (run_pc = "loop" /\ IsStep) => ~halted ]_vars

\* ADD r1,r1,r0[1] was executed on a halted CPU
C30_Witness ==
    /\ LastExecuted
    /\ LastInstr = Instruction(ADD, ALWAYS, 1, 1, 0, 1)
    /\ last.events[1].subject.halted
    /\ halted
    /\ last.events[1].subject.registers[1] = 0
    /\ registers[1] = 1
    /\ registers[15] = last.pc_addr + 1


(***************************************************************************)
(* C21.  The instruction fields reserved(31), opcode(26-30),               *)
(* predicate(22-25), target(18-21), src1(14-17), src2(10-13) and           *)
(* offset(0-9) are pairwise disjoint, and in encode() no field alters bits *)
(* owned by another: each field extracted from encode(i) is the            *)
(* corresponding field of i reduced to the field's width, also when        *)
(* another field's value exceeds its width (offset 600 or 2000, register   *)
(* 16); bit 31 stays 0.                                                    *)
(***************************************************************************)
InstructionFields ==
    {reserved, instr_field, cond_field, reg_target_field, reg_src1_field,
     reg_src2_field, offset_field}

C21_FieldsDisjoint ==
    /\ \A f \in InstructionFields, g \in InstructionFields :
          f # g => (f[2] < g[1] \/ g[2] < f[1])
    /\ \A f \in InstructionFields : 0 <= f[1] /\ f[1] <= f[2] /\ f[2] <= 31
    /\ codec_pc = "unchecked_encoded" =>
          /\ extract(instr_field, c_word) = c_instr.op % 32
          /\ extract(cond_field, c_word) = c_instr.cond % 16
          /\ extract(reg_target_field, c_word) = c_instr.reg_target % 16
          /\ extract(reg_src1_field, c_word) = c_instr.reg_src1 % 16
          /\ extract(reg_src2_field, c_word) = c_instr.reg_src2 % 16
          /\ extract(offset_field, c_word) = c_instr.offset % 1024
          /\ c_word >= 0
          /\ c_word \div Pow2(26) < 32

\* an Instruction with target 16 and offset 2000 was encoded: the target
\* field holds 0 and the predicate field is the Instruction's
C21_Witness ==
    /\ codec_pc = "unchecked_encoded"
    /\ c_instr.reg_target = 16
    /\ c_instr.offset = 2000
    /\ c_instr.cond = Z
    /\ extract(reg_target_field, c_word) = 0
    /\ extract(cond_field, c_word) = Z
    /\ extract(reg_src2_field, c_word) = 2
    /\ extract(offset_field, c_word) = 976


(***************************************************************************)
(* Vocabulary of the assembler properties                                  *)
(***************************************************************************)
\* the address of line i of a program: the cells the lines before it take
AddressOfLine(lines, i) ==
    Cardinality({j \in 1..(i - 1) : lines[j].form # "comment"})

\* the address resolve() gave to the label a line refers to
LabelAddress(line) == resolve(asm.src)[line.labelref]

\* a line of phase 1's output that refers to memory through a label
MemRef(line) ==
    line.form = "full" /\ line.labelref # "" /\ line.opcode \in {"LOAD", "STORE"}

(***************************************************************************)
(* C22.  transform() rewrites a JUMP written without registers,            *)
(* 'JUMP/pred label' at address a, into 'ADD/pred r15,r0,r15[L - a]', L    *)
(* the address resolve() gave to label, and writes as many lines as it was *)
(* given.  (Violated: ASM_JUMP_PAT asks for a target register, so the line *)
(* matches no pattern, is reported as a syntax error and is not written.)  *)
(***************************************************************************)
C22_JumpRewritten ==
    asm.pc = "transformed" =>
        /\ Len(asm.out) = Len(asm.src)
        /\ \A i \in 1..Len(asm.src) :
              (asm.src[i].form = "jump" /\ asm.src[i].opcode = "JUMP") =>
                  asm.out[i] =
                      AsmLine("full", asm.src[i].label, "ADD",
                              asm.src[i].predicate, 15, 0, 15,
                              <<LabelAddress(asm.src[i])
                                  - AddressOfLine(asm.src, i)>>,
                              asm.src[i].labelref, <<>>)

(***************************************************************************)
(* C27.  Assembler and CPU agree on PC-relative addressing: for a line     *)
(* 'OP rT,label' that refers to memory, transform() writes                 *)
(* 'OP rT,r0,r15[L - a]', a the address of the line and L the address      *)
(* resolve() gave to label; and when the program, assembled without an     *)
(* error, is loaded at address 0, the CPU executing that instruction at    *)
(* PC = a computes the effective address r0 + (r15 + (L - a)) = L and      *)
(* reads or writes cell L.                                                 *)
(***************************************************************************)
C27_PCRelative ==
    [][ /\ asm'.pc = "transformed" =>
            \A j \in {k \in 1..Len(asm.src) :
                        /\ asm.src[k].form = "memop"
                        /\ asm.src[k].labelref \in DOMAIN resolve(asm.src)} :
              \E i \in 1..j :
                /\ i <= Len(asm'.out)
                /\ asm'.out[i].form = "full"
                /\ asm'.out[i].label = asm.src[j].label
                /\ asm'.out[i].opcode = asm.src[j].opcode
                /\ asm'.out[i].predicate = asm.src[j].predicate
                /\ asm'.out[i].target = asm.src[j].target
                /\ asm'.out[i].src1 = 0
                /\ asm'.out[i].src2 = 15
                /\ asm'.out[i].labelref = asm.src[j].labelref
                /\ asm'.out[i].offset =
                      <<LabelAddress(asm.src[j]) - AddressOfLine(asm'.out, i)>>
        /\ (asm.pc = "loaded" /\ asm.errors = 0 /\ Satisfied) =>
            \A i \in {k \in 1..Len(asm.out) : MemRef(asm.out[k])} :
              (/\ AddressOfLine(asm.out, i) = registers[15]
               /\ instr_word = asm.words[registers[15] + 1]) =>
                  LET L == LabelAddress(asm.out[i])
                  IN  /\ L \in 0..(MachineSize - 1)
                      /\ W_offset = L - registers[15]
                      /\ W_left = 0
                      /\ W_right = registers[15] + (L - registers[15])
                      /\ W_left + W_right = L
                      /\ StepReturned
                      /\ W_op = LOAD =>
                            /\ last'.gets = <<L>>
                            /\ registers' = AdvanceThenWrite(W_target, memory[L])
                      /\ W_op = STORE =>
                            /\ last'.puts = <<<<L, registers[W_target]>>>>
                            /\ memory' = [memory EXCEPT ![L] = registers[W_target]]
      ]_vars

\* 'LOAD r1,lab' at address 511 with lab at address 0 was written with the
\* displacement -511, and the CPU at PC = 511 has loaded cell 0 into r1
C27_Witness ==
    /\ asm.pc = "loaded"
    /\ asm.errors = 0
    /\ Len(asm.src) = 513
    /\ Len(asm.out) = 513
    /\ asm.src[513] = MemOpLine("", "LOAD", <<>>, 1, "lab")
    /\ asm.src[2].label = "lab"
    /\ asm.out[513].offset = <<-511>>
    /\ LastExecuted
    /\ last.pc_addr = 511
    /\ last.instr_word = encode(Instruction(LOAD, ALWAYS, 1, 0, 15, -511))
    /\ last.gets = <<0>>
    /\ registers[1] = memory[0]
    /\ registers[1] = encode(Instruction(ADD, ALWAYS, 0, 0, 0, 0))


(***************************************************************************)
(* Vocabulary of the comparison properties                                 *)
(***************************************************************************)
\* the relation a comparison class stands for
Holds(c, l, r) ==
    CASE c = "EQ" -> l = r
      [] c = "NE" -> l # r
      [] c = "GT" -> l > r
      [] c = "GE" -> l >= r
      [] c = "LT" -> l < r
      [] c = "LE" -> l <= r

\* the flags a condition code names
Named(code) == {f \in {M, Z, P, V} : \E i \in 1..Len(code) :
                   \/ code[i] = "M" /\ f = M
                   \/ code[i] = "Z" /\ f = Z
                   \/ code[i] = "P" /\ f = P
                   \/ code[i] = "V" /\ f = V}

Compared == asm.src[1]

(***************************************************************************)
(* C23.  For each comparison class (EQ, NE, GT, GE, LT, LE), condjump      *)
(* emits 'SUB r0,left,right' followed by a JUMP predicated on              *)
(* cond_code_true when jump_cond is true and on cond_code_false otherwise; *)
(* the flag the CPU derives from left - right is in cond_code_true exactly *)
(* when the relation holds; cond_code_false is the complement of           *)
(* cond_code_true within {M, Z, P}; so an instruction predicated as the    *)
(* JUMP is executed exactly when the relation is as jump_cond asks, and    *)
(* exactly one of the two variants jumps.                                  *)
(***************************************************************************)
C23_CondJump ==
    [][ /\ asm'.pc = "compiled" =>
            /\ asm'.out[1] = MemOpLine("", "LOAD", <<>>, 14, asm'.out[1].labelref)
            /\ asm'.out[2] = MemOpLine("", "LOAD", <<>>, 13, asm'.out[2].labelref)
            /\ asm'.out[3] = FullLine("", "SUB", <<>>, 0, 14, 13, <<>>)
            /\ asm'.out[4].form = "jump"
            /\ asm'.out[4].opcode = "JUMP"
            /\ asm'.out[4].labelref = "there"
            /\ asm'.out[4].predicate =
                  IF Compared.jump_cond
                  THEN Comparisons[Compared.class].cond_code_true
                  ELSE Comparisons[Compared.class].cond_code_false
            /\ \E i \in 5..Len(asm'.out) :
                  /\ asm'.out[i].label = asm'.out[1].labelref
                  /\ asm'.out[i].value = <<Compared.left>>
            /\ \E i \in 5..Len(asm'.out) :
                  /\ asm'.out[i].label = asm'.out[2].labelref
                  /\ asm'.out[i].value = <<Compared.right>>
            /\ Named(Comparisons[Compared.class].cond_code_true)
                  \cup Named(Comparisons[Compared.class].cond_code_false)
                  = {M, Z, P}
            /\ Named(Comparisons[Compared.class].cond_code_true)
                  \cap Named(Comparisons[Compared.class].cond_code_false)
                  = {}
        /\ (asm.pc = "loaded" /\ Satisfied /\ W_op = SUB) =>
            /\ W_left = Compared.left
            /\ W_right = Compared.right
            /\ condition' \in {M, Z, P}
            /\ (condition' \in Named(Comparisons[Compared.class].cond_code_true))
                  <=> Holds(Compared.class, Compared.left, Compared.right)
            /\ (condition' \in Named(Comparisons[Compared.class].cond_code_false))
                  <=> ~Holds(Compared.class, Compared.left, Compared.right)
        /\ (asm.pc = "loaded" /\ IsStep /\ registers[15] = 3) =>
            /\ Decoded
            /\ Satisfied <=>
                  (Holds(Compared.class, Compared.left, Compared.right)
                      <=> Compared.jump_cond)
            /\ Satisfied => registers'[15] = 5
            /\ NotSatisfied => registers'[15] = 4
      ]_vars

\* GT(2, -1) compiled with jump_cond true: SUB left the condition P and the
\* jump predicated on P was taken, over the HALT of cell 4
C23_Witness ==
    /\ asm.pc = "loaded"
    /\ Compared = [class |-> "GT", left |-> 2, right |-> -1, jump_cond |-> TRUE]
    /\ asm.out[1].labelref = "const_2"
    /\ asm.out[2].labelref = "const_n_1"
    /\ asm.out[4].predicate = <<"P">>
    /\ registers[14] = 2
    /\ registers[13] = -1
    /\ condition = P
    /\ LastExecuted
    /\ last.pc_addr = 3
    /\ registers[15] = 5

====
